---- MODULE Spec2Model ----
(***************************************************************************)
(* Endpoint registry and request matcher of the stub server               *)
(* (internal/app/stubserver/resp_manager.go).                              *)
(*                                                                         *)
(* Go strings are modelled as sequences of byte values, so that           *)
(* strings.ToLower, sort.Strings and fmt.Sprintf do what the code does.    *)
(* Go maps are functions; the order in which `range` visits a map is an    *)
(* explicit permutation chosen by the caller of each operator.             *)
(***************************************************************************)
EXTENDS Integers, Sequences, FiniteSets, TLC

\* ------------------------------------------------------------------ bounds
MaxEndpoints == 3
NumProcs == 2
MaxKeys == 2

\* ----------------------------------------------------------------- strings
Colon == 58
Equals == 61

EmptyStr == << >>

\* the strings of the inputs, as bytes
Str ==
    [PathLowerA |-> <<47, 97>>,  \* "/a"
     PathUpperA |-> <<47, 65>>,  \* "/A"
     MethodLowerGet |-> <<103, 101, 116>>,  \* "get"
     KeyLowerX |-> <<120>>,  \* "x"
     KeyUpperX |-> <<88>>,  \* "X"
     KeyLowerW |-> <<119>>,  \* "w"
     KeyUpperW |-> <<87>>,  \* "W"
     ValLowerK |-> <<107>>,  \* "k"
     ValUpperK |-> <<75>>,  \* "K"
     ValLowerJ |-> <<106>>,  \* "j"
     BodyR |-> <<114>>,  \* "r"
     BodyS |-> <<115>>,  \* "s"
     NameAuthorization |-> <<65, 117, 116, 104, 111, 114, 105, 122, 97, 116, 105, 111, 110>>,  \* "Authorization"
     NameLowerAuthorization |-> <<97, 117, 116, 104, 111, 114, 105, 122, 97, 116, 105, 111, 110>>,  \* "authorization"
     HostExample |-> <<104>>,  \* "h"
     RemoteAddrExample |-> <<49, 58, 50>>,  \* "1:2"
     RawQueryXk |-> <<120, 61, 107>>,  \* "x=k"
     RawQueryXkXj |-> <<120, 61, 107, 38, 120, 61, 106>>,  \* "x=k&x=j"
     ErrUnexpectedEOF |-> <<117, 110, 101, 120, 112, 101, 99, 116, 101, 100, 32, 69, 79, 70>>,  \* "unexpected EOF"
     QuestionMark |-> <<63>>,  \* "?"
     Secret7 |-> <<55>>,  \* "7"
     Secret8 |-> <<56>>,  \* "8"
     RS256 |-> <<82, 83, 50, 53, 54>>,  \* "RS256"
     RS384 |-> <<82, 83, 51, 56, 52>>,  \* "RS384"
     RS512 |-> <<82, 83, 53, 49, 50>>,  \* "RS512"
     HS256 |-> <<72, 83, 50, 53, 54>>,  \* "HS256"
     KidM |-> <<109>>,  \* "m"
     KidN |-> <<110>>]  \* "n"

MethodGET == <<71, 69, 84>>
MethodPOST == <<80, 79, 83, 84>>
MethodPUT == <<80, 85, 84>>
MethodDELETE == <<68, 69, 76, 69, 84, 69>>
MethodPATCH == <<80, 65, 84, 67, 72>>
MethodOPTIONS == <<79, 80, 84, 73, 79, 78, 83>>

\* strings.ToLower on ASCII
ToLower(s) == [i \in DOMAIN s |-> IF s[i] >= 65 /\ s[i] <= 90 THEN s[i] + 32 ELSE s[i]]

\* the byte-wise order sort.Strings uses
RECURSIVE StrLess(_, _)
StrLess(a, b) ==
    IF b = << >> THEN FALSE
    ELSE IF a = << >> THEN TRUE
    ELSE IF Head(a) # Head(b) THEN Head(a) < Head(b)
    ELSE StrLess(Tail(a), Tail(b))

RECURSIVE InsertSorted(_, _)
InsertSorted(k, sorted) ==
    IF sorted = << >> THEN <<k>>
    ELSE IF StrLess(k, Head(sorted)) THEN <<k>> \o sorted
    ELSE <<Head(sorted)>> \o InsertSorted(k, Tail(sorted))

\* the keys left in the order `range` produced them
SortStringsOmitted(keys) == keys

\* sort.Strings
RECURSIVE SortStrings(_)
SortStrings(keys) ==
    IF keys = << >> THEN << >>
    ELSE InsertSorted(Head(keys), SortStrings(Tail(keys)))

\* all orders in which `range` may visit the keys of a map
Orders(S) == {o \in [1..Cardinality(S) -> S] : \A i, j \in DOMAIN o : i # j => o[i] # o[j]}

EmptyMap == [k \in {} |-> << >>]

\* ------------------------------------------------------------------ GetID
\* the loop `for _, key := range keys { WriteString(":%s=%s") }`
RECURSIVE WritePairs(_, _)
WritePairs(keys, m) ==
    IF keys = << >> THEN << >>
    ELSE <<Colon>> \o Head(keys) \o <<Equals>> \o m[Head(keys)] \o WritePairs(Tail(keys), m)

\* GetID writing the query pairs before the header pairs
GetIDQueriesFirst(ei, hOrd, qOrd) ==
    LET headerKeys == SortStrings(hOrd)
        queryKeys == SortStrings(qOrd)
    IN ToLower(ei.Path \o <<Colon>> \o ei.HTTPMethod
               \o WritePairs(queryKeys, ei.QueryParamsToMatch)
               \o WritePairs(headerKeys, ei.HeadersToMatch))

\* GetID: hOrd and qOrd are the orders in which the two `range` loops
\* visit HeadersToMatch and QueryParamsToMatch
GetID(ei, hOrd, qOrd) ==
    LET headerKeys == SortStrings(hOrd)
        queryKeys == SortStrings(qOrd)
    IN ToLower(ei.Path \o <<Colon>> \o ei.HTTPMethod
               \o WritePairs(headerKeys, ei.HeadersToMatch)
               \o WritePairs(queryKeys, ei.QueryParamsToMatch))

\* GetID of internal/stub-server: the pairs are written in the order the
\* two `range` loops visit the maps, and nothing is lower-cased
StubServerGetID(ei, hOrd, qOrd) ==
    ei.Path \o <<Colon>> \o ei.HTTPMethod
    \o WritePairs(hOrd, ei.HeadersToMatch)
    \o WritePairs(qOrd, ei.QueryParamsToMatch)

\* GetID under one fixed visiting order of the two maps; used where the
\* identity is only rendered into an error message
ID(ei) ==
    LET hOrd == CHOOSE o \in Orders(DOMAIN ei.HeadersToMatch) : TRUE
        qOrd == CHOOSE o \in Orders(DOMAIN ei.QueryParamsToMatch) : TRUE
    IN GetID(ei, hOrd, qOrd)

\* ------------------------------------------------------- ValidateEndpoint
validMethods == {MethodGET, MethodPOST, MethodPUT, MethodDELETE, MethodPATCH, MethodOPTIONS}

\* net/http status codes
StatusOK == 200
StatusBadRequest == 400
StatusNotFound == 404
StatusMethodNotAllowed == 405

NoError == [err |-> "nil", arg |-> << >>]
ErrMissingField == [err |-> "path and method are required", arg |-> << >>]
ErrMissingBody == [err |-> "response body is required", arg |-> << >>]
ErrInvalidMethod(m) == [err |-> "invalid HTTP method", arg |-> m]
ErrExists(id) == [err |-> "endpoint already exists", arg |-> id]
ErrNotFound(id) == [err |-> "endpoint not found", arg |-> id]
ErrTooManyMatches(id) == [err |-> "to many matches", arg |-> id]
ErrNoMatch(path) == [err |-> "no endpoints matched the given request", arg |-> path]

\* ValidateEndpoint without the response-body check
ValidateEndpointNoBody(ep) ==
    IF ep.EndpointID.Path = EmptyStr \/ ep.EndpointID.HTTPMethod = EmptyStr THEN ErrMissingField
    ELSE IF ep.EndpointID.HTTPMethod \notin validMethods
         THEN ErrInvalidMethod(ep.EndpointID.HTTPMethod)
         ELSE NoError

\* ValidateEndpoint with the response-body check first
ValidateEndpointBodyFirst(ep) ==
    IF ep.ResponseBody = EmptyStr THEN ErrMissingBody
    ELSE IF ep.EndpointID.Path = EmptyStr \/ ep.EndpointID.HTTPMethod = EmptyStr
         THEN ErrMissingField
         ELSE IF ep.EndpointID.HTTPMethod \notin validMethods
              THEN ErrInvalidMethod(ep.EndpointID.HTTPMethod)
              ELSE NoError

validateHTTPMethods(ep) ==
    IF ep.EndpointID.HTTPMethod \notin validMethods
    THEN ErrInvalidMethod(ep.EndpointID.HTTPMethod)
    ELSE NoError

ValidateEndpoint(ep) ==
    IF ep.EndpointID.Path = EmptyStr \/ ep.EndpointID.HTTPMethod = EmptyStr THEN ErrMissingField
    ELSE IF ep.ResponseBody = EmptyStr THEN ErrMissingBody
    ELSE validateHTTPMethods(ep)

\* --------------------------------------------------------- calculateMatch
\* MatchingPairs comparing the names only
MatchingPairsNameOnly(reqMap, epMap) ==
    Cardinality({kk \in (DOMAIN reqMap) \X (DOMAIN epMap) : kk[2] = kk[1]})

\* number of iterations of the nested loops that increment the counter
MatchingPairs(reqMap, epMap) ==
    Cardinality({kk \in (DOMAIN reqMap) \X (DOMAIN epMap) :
                    kk[2] = kk[1] /\ epMap[kk[2]] = reqMap[kk[1]]})

calculateMatch(ec, ei) ==
    MatchingPairs(ei.QueryParamsToMatch, ec.EndpointID.QueryParamsToMatch)
    + MatchingPairs(ei.HeadersToMatch, ec.EndpointID.HeadersToMatch)

\* ---------------------------------------------------------- MatchEndpoint
\* a *EndpointConfiguration is a sequence of length at most one: << >> is nil
NilConfig == << >>

ZeroEndpointID ==
    [Path |-> EmptyStr, HTTPMethod |-> EmptyStr,
     QueryParamsToMatch |-> EmptyMap, HeadersToMatch |-> EmptyMap]

\* EndpointConfiguration{}
ZeroConfig ==
    [EndpointID |-> ZeroEndpointID, ResponseHeaders |-> EmptyMap,
     ResponseBody |-> EmptyStr, ResponseStatusCode |-> 0]

Result(e, v) == [err |-> e, val |-> v]

\* MatchLoop without the `if _, exists := endpointsScoring[currentScore]` test
RECURSIVE MatchLoopNoTieCheck(_, _, _, _, _)
MatchLoopNoTieCheck(eps, ei, order, endpointsScoring, maxScore) ==
    IF order = << >>
    THEN IF maxScore = -1
         THEN Result(ErrNoMatch(ei.Path), NilConfig)
         ELSE Result(NoError, <<endpointsScoring[maxScore]>>)
    ELSE LET endpoint == eps[Head(order)]
         IN IF endpoint.EndpointID.Path = ei.Path
               /\ endpoint.EndpointID.HTTPMethod = ei.HTTPMethod
            THEN LET currentScore == calculateMatch(endpoint, ei)
                 IN MatchLoopNoTieCheck(eps, ei, Tail(order),
                        (currentScore :> endpoint) @@ endpointsScoring,
                        IF currentScore > maxScore THEN currentScore ELSE maxScore)
            ELSE MatchLoopNoTieCheck(eps, ei, Tail(order), endpointsScoring, maxScore)

\* MatchLoop that reports no match unless some candidate scores above 0
RECURSIVE MatchLoopNeedsScore(_, _, _, _, _)
MatchLoopNeedsScore(eps, ei, order, endpointsScoring, maxScore) ==
    IF order = << >>
    THEN IF maxScore <= 0
         THEN Result(ErrNoMatch(ei.Path), NilConfig)
         ELSE Result(NoError, <<endpointsScoring[maxScore]>>)
    ELSE LET endpoint == eps[Head(order)]
         IN IF endpoint.EndpointID.Path = ei.Path
               /\ endpoint.EndpointID.HTTPMethod = ei.HTTPMethod
            THEN LET currentScore == calculateMatch(endpoint, ei)
                 IN IF currentScore \in DOMAIN endpointsScoring
                    THEN Result(ErrTooManyMatches(ID(endpoint.EndpointID)), NilConfig)
                    ELSE MatchLoopNeedsScore(eps, ei, Tail(order),
                                   (currentScore :> endpoint) @@ endpointsScoring,
                                   IF currentScore > maxScore THEN currentScore ELSE maxScore)
            ELSE MatchLoopNeedsScore(eps, ei, Tail(order), endpointsScoring, maxScore)

\* MatchLoop that keeps the score of the first candidate as the maximum
RECURSIVE MatchLoopKeepsFirst(_, _, _, _, _)
MatchLoopKeepsFirst(eps, ei, order, endpointsScoring, maxScore) ==
    IF order = << >>
    THEN IF maxScore = -1
         THEN Result(ErrNoMatch(ei.Path), NilConfig)
         ELSE Result(NoError, <<endpointsScoring[maxScore]>>)
    ELSE LET endpoint == eps[Head(order)]
         IN IF endpoint.EndpointID.Path = ei.Path
               /\ endpoint.EndpointID.HTTPMethod = ei.HTTPMethod
            THEN LET currentScore == calculateMatch(endpoint, ei)
                 IN IF currentScore \in DOMAIN endpointsScoring
                    THEN Result(ErrTooManyMatches(ID(endpoint.EndpointID)), NilConfig)
                    ELSE MatchLoopKeepsFirst(eps, ei, Tail(order),
                                   (currentScore :> endpoint) @@ endpointsScoring,
                                   IF maxScore = -1 THEN currentScore ELSE maxScore)
            ELSE MatchLoopKeepsFirst(eps, ei, Tail(order), endpointsScoring, maxScore)

\* MatchLoop selecting the candidates by path only
RECURSIVE MatchLoopPathOnly(_, _, _, _, _)
MatchLoopPathOnly(eps, ei, order, endpointsScoring, maxScore) ==
    IF order = << >>
    THEN IF maxScore = -1
         THEN Result(ErrNoMatch(ei.Path), NilConfig)
         ELSE Result(NoError, <<endpointsScoring[maxScore]>>)
    ELSE LET endpoint == eps[Head(order)]
         IN IF endpoint.EndpointID.Path = ei.Path
            THEN LET currentScore == calculateMatch(endpoint, ei)
                 IN IF currentScore \in DOMAIN endpointsScoring
                    THEN Result(ErrTooManyMatches(ID(endpoint.EndpointID)), NilConfig)
                    ELSE MatchLoopPathOnly(eps, ei, Tail(order),
                                   (currentScore :> endpoint) @@ endpointsScoring,
                                   IF currentScore > maxScore THEN currentScore ELSE maxScore)
            ELSE MatchLoopPathOnly(eps, ei, Tail(order), endpointsScoring, maxScore)

\* MatchLoop that reports a tie only when the score equals the maximum seen
\* so far
RECURSIVE MatchLoopTieAtMax(_, _, _, _, _)
MatchLoopTieAtMax(eps, ei, order, endpointsScoring, maxScore) ==
    IF order = << >>
    THEN IF maxScore = -1
         THEN Result(ErrNoMatch(ei.Path), NilConfig)
         ELSE Result(NoError, <<endpointsScoring[maxScore]>>)
    ELSE LET endpoint == eps[Head(order)]
         IN IF endpoint.EndpointID.Path = ei.Path
               /\ endpoint.EndpointID.HTTPMethod = ei.HTTPMethod
            THEN LET currentScore == calculateMatch(endpoint, ei)
                 IN IF currentScore = maxScore
                    THEN Result(ErrTooManyMatches(ID(endpoint.EndpointID)), NilConfig)
                    ELSE MatchLoopTieAtMax(eps, ei, Tail(order),
                                   (currentScore :> endpoint) @@ endpointsScoring,
                                   IF currentScore > maxScore THEN currentScore ELSE maxScore)
            ELSE MatchLoopTieAtMax(eps, ei, Tail(order), endpointsScoring, maxScore)

\* the body of `for _, endpoint := range rm.endpoints` and the statements
\* after it; order is the order in which range visits the keys of the map
RECURSIVE MatchLoop(_, _, _, _, _)
MatchLoop(eps, ei, order, endpointsScoring, maxScore) ==
    IF order = << >>
    THEN IF maxScore = -1
         THEN Result(ErrNoMatch(ei.Path), NilConfig)
         ELSE Result(NoError, <<endpointsScoring[maxScore]>>)
    ELSE LET endpoint == eps[Head(order)]
         IN IF endpoint.EndpointID.Path = ei.Path
               /\ endpoint.EndpointID.HTTPMethod = ei.HTTPMethod
            THEN LET currentScore == calculateMatch(endpoint, ei)
                 IN IF currentScore \in DOMAIN endpointsScoring
                    THEN Result(ErrTooManyMatches(ID(endpoint.EndpointID)), NilConfig)
                    ELSE MatchLoop(eps, ei, Tail(order),
                                   (currentScore :> endpoint) @@ endpointsScoring,
                                   IF currentScore > maxScore THEN currentScore ELSE maxScore)
            ELSE MatchLoop(eps, ei, Tail(order), endpointsScoring, maxScore)

MatchEndpointResult(eps, ei, order) ==
    MatchLoop(eps, ei, order, [s \in {} |-> ZeroConfig], -1)

\* --------------------------------------------------- the other operations
\* fmt's rendering of a map: map[k:v k:v], keys sorted
RECURSIVE FormatPairs(_, _)
FormatPairs(keys, m) ==
    IF keys = << >> THEN << >>
    ELSE Head(keys) \o <<Colon>> \o m[Head(keys)]
         \o (IF Tail(keys) = << >> THEN << >> ELSE <<32>>) \o FormatPairs(Tail(keys), m)

FormatMap(m) ==
    <<109, 97, 112, 91>>
    \o FormatPairs(SortStrings(CHOOSE o \in Orders(DOMAIN m) : TRUE), m) \o <<93>>

\* fmt's %s rendering of *EndpointID: &{Path HTTPMethod map[..] map[..]}
FormatEndpointID(ei) ==
    <<38, 123>> \o ei.Path \o <<32>> \o ei.HTTPMethod \o <<32>>
    \o FormatMap(ei.QueryParamsToMatch) \o <<32>> \o FormatMap(ei.HeadersToMatch) \o <<125>>

\* a lookup that never finds the key
ExistsNever(eps, endpointID) == FALSE

\* _, exists := rm.endpoints[endpointID]
Exists(eps, endpointID) == endpointID \in DOMAIN eps

\* GetEndpointResult that drops the response headers, body and status code
GetEndpointResultIDOnly(eps, ei, endpointID) ==
    IF endpointID \notin DOMAIN eps
    THEN Result(ErrNotFound(FormatEndpointID(ei)), <<ZeroConfig>>)
    ELSE Result(NoError, <<[ZeroConfig EXCEPT !.EndpointID = eps[endpointID].EndpointID]>>)

GetEndpointResult(eps, ei, endpointID) ==
    IF ~Exists(eps, endpointID)
    THEN Result(ErrNotFound(FormatEndpointID(ei)), <<ZeroConfig>>)
    ELSE Result(NoError, <<eps[endpointID]>>)

\* rm.endpoints[endpointID] = ec
MapPut(eps, endpointID, ec) ==
    [k \in (DOMAIN eps) \cup {endpointID} |-> IF k = endpointID THEN ec ELSE eps[k]]

\* AddEndpoint of internal/stub-server on the entries eps, endpointID being
\* what its GetID returned: the error and the entries left.  ValidateEndpoint
\* and GetEndpointByEndpointID of that package are the functions of
\* internal/app/stubserver, statement by statement.
StubServerAddEndpoint(eps, ec, endpointID) ==
    IF ValidateEndpoint(ec) # NoError THEN [err |-> ValidateEndpoint(ec), endpoints |-> eps]
    ELSE IF Exists(eps, endpointID) THEN [err |-> ErrExists(endpointID), endpoints |-> eps]
    ELSE [err |-> NoError, endpoints |-> MapPut(eps, endpointID, ec)]

\* delete(rm.endpoints, k) for every k in keys
MapDelete(eps, keys) == [k \in (DOMAIN eps) \ keys |-> eps[k]]

\* ------------------------------------------------------------------ inputs
EID(path, method, headers, query) ==
    [Path |-> path, HTTPMethod |-> method,
     QueryParamsToMatch |-> query, HeadersToMatch |-> headers]

Cfg(ei, body, status) ==
    [EndpointID |-> ei, ResponseHeaders |-> EmptyMap,
     ResponseBody |-> body, ResponseStatusCode |-> status]

\* maps of headers or query parameters to match
Hdr ==
    [Xk |-> Str.KeyLowerX :> Str.ValLowerK,
     Xj |-> Str.KeyLowerX :> Str.ValLowerJ,
     XUpperK |-> Str.KeyLowerX :> Str.ValUpperK,
     UpperXk |-> Str.KeyUpperX :> Str.ValLowerK]

\* the EndpointIDs of the inputs
Id ==
    [Plain |-> EID(Str.PathLowerA, MethodGET, EmptyMap, EmptyMap),
     HdrK |-> EID(Str.PathLowerA, MethodGET, Hdr.Xk, EmptyMap),
     HdrJ |-> EID(Str.PathLowerA, MethodGET, Hdr.Xj, EmptyMap),
     HdrUpperK |-> EID(Str.PathLowerA, MethodGET, Hdr.XUpperK, EmptyMap),
     QueryK |-> EID(Str.PathLowerA, MethodGET, EmptyMap, Hdr.Xk),
     UpperHdrK |-> EID(Str.PathLowerA, MethodGET, Hdr.UpperXk, EmptyMap),
     Both |-> EID(Str.PathLowerA, MethodGET, Hdr.Xk, Hdr.Xk),
     Post |-> EID(Str.PathLowerA, MethodPOST, EmptyMap, EmptyMap),
     UpperPath |-> EID(Str.PathUpperA, MethodGET, EmptyMap, EmptyMap),
     UpperPost |-> EID(Str.PathUpperA, MethodPOST, EmptyMap, EmptyMap)]

\* request shapes and identifiers a single caller passes
SeqIDs ==
    {Id.Plain, Id.HdrK, Id.HdrJ, Id.HdrUpperK, Id.QueryK, Id.UpperHdrK, Id.Both,
     Id.Post, Id.UpperPath, Id.UpperPost}

\* configurations a single caller registers; the last five do not validate
SeqConfigs ==
    {Cfg(e, Str.BodyR, 200) : e \in SeqIDs \ {Id.UpperPost}}
    \cup {Cfg(Id.Plain, Str.BodyS, 0),
          Cfg(Id.Plain, EmptyStr, 200),
          Cfg(EID(EmptyStr, MethodGET, EmptyMap, EmptyMap), Str.BodyR, 200),
          Cfg(EID(Str.PathLowerA, EmptyStr, EmptyMap, EmptyMap), EmptyStr, 200),
          Cfg(EID(Str.PathLowerA, Str.MethodLowerGet, EmptyMap, EmptyMap), Str.BodyR, 200),
          Cfg(EID(Str.PathLowerA, Str.MethodLowerGet, EmptyMap, EmptyMap), EmptyStr, 200)}

SeqPaths == {Str.PathLowerA, Str.PathUpperA}
SeqMethods == {MethodGET, MethodPOST}

\* the smaller inputs concurrent callers use
ConcIDs == {Id.Plain, Id.HdrK}
ConcConfigs == {Cfg(Id.Plain, Str.BodyR, 200), Cfg(Id.Plain, Str.BodyS, 0), Cfg(Id.HdrK, Str.BodyR, 200)}
ConcPaths == {Str.PathLowerA}
ConcMethods == {MethodGET}

\* ------------------------------------------------------------------- state
VARIABLES
    endpoints,   \* rm.endpoints: identity string -> EndpointConfiguration
    writer,      \* rm.mu: the goroutine holding the write lock, or NoProc
    readers,     \* rm.mu: the goroutines holding a read lock
    pc,          \* where each calling goroutine is in its current call
    call,        \* the operation, arguments and locals of each goroutine's call
    ret,         \* the value the current call is about to return
    callers,     \* the goroutines that call this ResponseManager
    pure         \* the last direct call of a package-level function

vars == <<endpoints, writer, readers, pc, call, ret, callers, pure>>

NoProc == 0
Procs == 1..NumProcs

NoCall ==
    [op |-> "none", ec |-> ZeroConfig, ei |-> ZeroEndpointID,
     path |-> EmptyStr, method |-> EmptyStr, endpointID |-> EmptyStr]

Pending == Result([err |-> "pending", arg |-> << >>], << >>)

WriteOps ==
    {"AddEndpoint", "DeleteEndpointByEndpointID", "DeleteEndpointByPath",
     "DeleteEndpointByPathAndMethod", "DeleteAllEndpoints"}
ReadOps == {"GetEndpointByEndpointID", "MatchEndpoint", "GetAllEndpointConfigurations"}

InputConfigs == IF Cardinality(callers) = 1 THEN SeqConfigs ELSE ConcConfigs
InputIDs == IF Cardinality(callers) = 1 THEN SeqIDs ELSE ConcIDs
InputPaths == IF Cardinality(callers) = 1 THEN SeqPaths ELSE ConcPaths
InputMethods == IF Cardinality(callers) = 1 THEN SeqMethods ELSE ConcMethods

\* ------------------------------------------------------ logRequestContext
\* the texts of the format strings, as bytes
Lit ==
    [RequestMethod |->  \* "Request Method: "
        <<82, 101, 113, 117, 101, 115, 116, 32, 77, 101, 116, 104, 111, 100, 58, 32>>,
     AbsoluteURL |->  \* "Absolute URL: "
        <<65, 98, 115, 111, 108, 117, 116, 101, 32, 85, 82, 76, 58, 32>>,
     AbsolutePath |->  \* "Absolute Path: "
        <<65, 98, 115, 111, 108, 117, 116, 101, 32, 80, 97, 116, 104, 58, 32>>,
     Host |->  \* "Host: "
        <<72, 111, 115, 116, 58, 32>>,
     RemoteAddress |->  \* "Remote Address: "
        <<82, 101, 109, 111, 116, 101, 32, 65, 100, 100, 114, 101, 115, 115, 58, 32>>,
     Headers |->  \* "Headers:\n"
        <<72, 101, 97, 100, 101, 114, 115, 58, 10>>,
     Masked |->  \* ": *****\n"
        <<58, 32, 42, 42, 42, 42, 42, 10>>,
     QueryParameters |->  \* "Query Parameters:\n"
        <<81, 117, 101, 114, 121, 32, 80, 97, 114, 97, 109, 101, 116, 101, 114, 115, 58, 10>>,
     BodyContent |->  \* "Body Content:\n"
        <<66, 111, 100, 121, 32, 67, 111, 110, 116, 101, 110, 116, 58, 10>>,
     ErrorReading |->  \* "Error reading request body: "
        <<69, 114, 114, 111, 114, 32, 114, 101, 97, 100, 105, 110, 103, 32, 114, 101, 113, 117, 101, 115, 116, 32, 98, 111, 100, 121, 58, 32>>,
     Indent |->  \* "  "
        <<32, 32>>,
     ColonSpace |->  \* ": "
        <<58, 32>>,
     Newline |->  \* "\n"
        <<10>>]

\* header names, and the other strings of the requests that are logged

maxBodySizeBytes == 1024 * 10

\* strings.EqualFold on ASCII names
EqualFold(s, t) == ToLower(s) = ToLower(t)

\* a test for the header name that is sensitive to letter case
IsAuthorizationExact(name) == name = Str.NameAuthorization

\* strings.EqualFold(name, "Authorization")
IsAuthorization(name) == EqualFold(name, Str.NameAuthorization)

\* r.URL.String() of a request for a path and a raw query
URLString(r) ==
    r.Path \o (IF r.RawQuery = EmptyStr THEN EmptyStr ELSE Str.QuestionMark \o r.RawQuery)

\* `for _, value := range values`: one line "  name: value\n" per value
RECURSIVE ValueLines(_, _)
ValueLines(name, values) ==
    IF values = << >>
    THEN EmptyStr
    ELSE Lit.Indent \o name \o Lit.ColonSpace \o Head(values) \o Lit.Newline
         \o ValueLines(name, Tail(values))

\* `for name, values := range r.Header`, visiting the names in the given
\* order
RECURSIVE HeaderLines(_, _)
HeaderLines(header, order) ==
    IF order = << >>
    THEN EmptyStr
    ELSE (IF IsAuthorization(Head(order))
          THEN Lit.Indent \o Head(order) \o Lit.Masked
          ELSE ValueLines(Head(order), header[Head(order)]))
         \o HeaderLines(header, Tail(order))

\* `for name, values := range r.URL.Query()`
RECURSIVE QueryLines(_, _)
QueryLines(query, order) ==
    IF order = << >>
    THEN EmptyStr
    ELSE ValueLines(Head(order), query[Head(order)]) \o QueryLines(query, Tail(order))

\* io.LimitReader(r.Body, maxBodySizeBytes)
LimitReader(data) ==
    IF Len(data) > maxBodySizeBytes THEN SubSeq(data, 1, maxBodySizeBytes) ELSE data

\* the body section: nothing for a nil body, the error when reading fails,
\* the bytes read otherwise
BodyLines(body) ==
    IF body = << >>
    THEN EmptyStr
    ELSE IF body[1].err # EmptyStr
         THEN Lit.ErrorReading \o body[1].err \o Lit.Newline
         ELSE Lit.BodyContent \o LimitReader(body[1].data) \o Lit.Newline

logRequestContext(r, hOrd, qOrd) ==
    Lit.RequestMethod \o r.Method \o Lit.Newline
    \o Lit.AbsoluteURL \o URLString(r) \o Lit.Newline
    \o Lit.AbsolutePath \o r.Path \o Lit.Newline
    \o Lit.Host \o r.Host \o Lit.Newline
    \o Lit.RemoteAddress \o r.RemoteAddr \o Lit.Newline
    \o Lit.Headers \o HeaderLines(r.Header, hOrd)
    \o Lit.QueryParameters \o QueryLines(r.Query, qOrd)
    \o BodyLines(r.Body)

\* the http.Request logRequestContext reads
LogRequest(header, rawQuery, query, body) ==
    [Method |-> MethodGET, Path |-> Str.PathLowerA, RawQuery |-> rawQuery, Query |-> query,
     Host |-> Str.HostExample, RemoteAddr |-> Str.RemoteAddrExample, Header |-> header, Body |-> body]

NoLogRequest == LogRequest(EmptyMap, EmptyStr, EmptyMap, << >>)

\* header names of the logged requests, and the values a name can carry:
\* the Authorization headers carry the secrets
LogNames == {Str.NameAuthorization, Str.NameLowerAuthorization, Str.KeyUpperX}
LogSecrets == {<<Str.Secret7>>, <<Str.Secret8>>, <<Str.Secret7, Str.Secret8>>}
LogValues(name) == IF ToLower(name) = Str.NameLowerAuthorization THEN LogSecrets ELSE {<<Str.ValLowerK>>}

\* the headers with at most MaxKeys names
LogHeaders ==
    UNION {{h \in [ns -> LogSecrets \cup {<<Str.ValLowerK>>}] : \A n \in ns : h[n] \in LogValues(n)} :
             ns \in {t \in SUBSET LogNames : Cardinality(t) <= MaxKeys}}

\* raw queries with the values url.Query() parses from them
LogQueries ==
    {[raw |-> EmptyStr, parsed |-> EmptyMap],
     [raw |-> Str.RawQueryXk, parsed |-> Str.KeyLowerX :> <<Str.ValLowerK>>],
     [raw |-> Str.RawQueryXkXj, parsed |-> Str.KeyLowerX :> <<Str.ValLowerK, Str.ValLowerJ>>]}

\* request bodies: none, one that is read, one whose reading fails
LogBodies ==
    {<< >>, <<[data |-> Str.BodyR, err |-> EmptyStr]>>, <<[data |-> EmptyStr, err |-> Str.ErrUnexpectedEOF]>>}

\* no package-level function has been called
NoPure ==
    [fn |-> "none", ec |-> ZeroConfig, ei |-> ZeroEndpointID, req |-> NoLogRequest,
     hOrd |-> << >>, qOrd |-> << >>, hOrd2 |-> << >>, qOrd2 |-> << >>,
     env |-> << >>, out |-> << >>]

\* NewResponseManager, used by the given goroutines
InitWith(cs) ==
    /\ endpoints = [k \in {} |-> ZeroConfig]
    /\ writer = NoProc
    /\ readers = {}
    /\ pc = [p \in Procs |-> "idle"]
    /\ call = [p \in Procs |-> NoCall]
    /\ ret = [p \in Procs |-> Pending]
    /\ callers = cs
    /\ pure = NoPure

\* one goroutine: the HTTP handlers called one request at a time
Init == InitWith({1})

\* every goroutine: requests served in parallel
InitConc == InitWith(Procs)

\* calls of AddEndpoint that may still insert
PendingAdds == {q \in callers : call[q].op = "AddEndpoint" /\ pc[q] # "done"}

\* a goroutine calls one of the operations
Call(p) ==
    /\ p \in callers
    /\ pc[p] = "idle"
    /\ \E c \in
          {[NoCall EXCEPT !.op = "AddEndpoint", !.ec = ec] : ec \in
              IF Cardinality(DOMAIN endpoints) + Cardinality(PendingAdds) < MaxEndpoints
              THEN InputConfigs ELSE {}}
          \cup {[NoCall EXCEPT !.op = o, !.ei = ei] :
                   o \in {"MatchEndpoint", "GetEndpointByEndpointID", "DeleteEndpointByEndpointID"},
                   ei \in InputIDs}
          \cup {[NoCall EXCEPT !.op = "DeleteEndpointByPath", !.path = pa] : pa \in InputPaths}
          \cup {[NoCall EXCEPT !.op = "DeleteEndpointByPathAndMethod", !.path = pa, !.method = m] :
                   pa \in InputPaths, m \in InputMethods}
          \cup {[NoCall EXCEPT !.op = o] : o \in {"GetAllEndpointConfigurations", "DeleteAllEndpoints"}} :
          call' = [call EXCEPT ![p] = c]
    /\ pc' = [pc EXCEPT ![p] = "wait"]
    /\ UNCHANGED <<endpoints, writer, readers, ret, callers, pure>>

\* a Lock that does not wait for anybody
LockFreeAlways == TRUE

\* a Lock that does not wait for the readers
LockFreeIgnoresReaders == writer = NoProc

\* rm.mu.Lock()
LockFree == writer = NoProc /\ readers = {}

Lock(p) ==
    /\ pc[p] = "wait"
    /\ call[p].op \in WriteOps
    /\ LockFree
    /\ writer' = p
    /\ pc' = [pc EXCEPT ![p] = "locked"]
    /\ UNCHANGED <<endpoints, readers, call, ret, callers, pure>>

\* an RLock that does not wait for the writer
RLockFreeAlways == TRUE

\* a goroutine is blocked in rm.mu.Lock()
WriterWaiting == \E q \in Procs : pc[q] = "wait" /\ call[q].op \in WriteOps

\* rm.mu.RLock(): a reader gets in when no writer holds the lock or is
\* blocked in Lock
RLockFree == writer = NoProc /\ ~WriterWaiting

RLock(p) ==
    /\ pc[p] = "wait"
    /\ call[p].op \in ReadOps
    /\ RLockFree
    /\ readers' = readers \cup {p}
    /\ pc' = [pc EXCEPT ![p] = "locked"]
    /\ UNCHANGED <<endpoints, writer, call, ret, callers, pure>>

Running(p, op) == pc[p] = "locked" /\ call[p].op = op

Done(p, r) ==
    /\ pc' = [pc EXCEPT ![p] = "done"]
    /\ ret' = [ret EXCEPT ![p] = r]

\* AddEndpoint that rejects a registered identity only when the stored
\* configuration equals the new one, and otherwise overwrites it
AddEndpointCheckUpsert(p) ==
    /\ Running(p, "AddEndpoint")
    /\ LET ec == call[p].ec
           err == ValidateEndpoint(ec)
       IN IF err # NoError
          THEN Done(p, Result(err, << >>)) /\ UNCHANGED call
          ELSE \E hOrd \in Orders(DOMAIN ec.EndpointID.HeadersToMatch),
                  qOrd \in Orders(DOMAIN ec.EndpointID.QueryParamsToMatch) :
                  LET endpointID == GetID(ec.EndpointID, hOrd, qOrd)
                  IN IF Exists(endpoints, endpointID) /\ endpoints[endpointID] = ec
                     THEN Done(p, Result(ErrExists(endpointID), << >>)) /\ UNCHANGED call
                     ELSE /\ pc' = [pc EXCEPT ![p] = "insert"]
                          /\ call' = [call EXCEPT ![p].endpointID = endpointID]
                          /\ UNCHANGED ret
    /\ UNCHANGED <<endpoints, writer, readers, callers, pure>>

\* AddEndpoint, from ValidateEndpoint to the duplicate check
AddEndpointCheck(p) ==
    /\ Running(p, "AddEndpoint")
    /\ LET ec == call[p].ec
           err == ValidateEndpoint(ec)
       IN IF err # NoError
          THEN Done(p, Result(err, << >>)) /\ UNCHANGED call
          ELSE \E hOrd \in Orders(DOMAIN ec.EndpointID.HeadersToMatch),
                  qOrd \in Orders(DOMAIN ec.EndpointID.QueryParamsToMatch) :
                  LET endpointID == GetID(ec.EndpointID, hOrd, qOrd)
                  IN IF Exists(endpoints, endpointID)
                     THEN Done(p, Result(ErrExists(endpointID), << >>)) /\ UNCHANGED call
                     ELSE /\ pc' = [pc EXCEPT ![p] = "insert"]
                          /\ call' = [call EXCEPT ![p].endpointID = endpointID]
                          /\ UNCHANGED ret
    /\ UNCHANGED <<endpoints, writer, readers, callers, pure>>

\* AddEndpoint storing the configuration under its path instead of its
\* identity
AddEndpointInsertByPath(p) ==
    /\ pc[p] = "insert"
    /\ endpoints' = MapPut(endpoints, call[p].ec.EndpointID.Path, call[p].ec)
    /\ Done(p, Result(NoError, << >>))
    /\ UNCHANGED <<writer, readers, call, callers, pure>>

\* AddEndpoint, the insertion and return nil
AddEndpointInsert(p) ==
    /\ pc[p] = "insert"
    /\ endpoints' = MapPut(endpoints, call[p].endpointID, call[p].ec)
    /\ Done(p, Result(NoError, << >>))
    /\ UNCHANGED <<writer, readers, call, callers, pure>>

MatchEndpoint(p) ==
    /\ Running(p, "MatchEndpoint")
    /\ \E order \in Orders(DOMAIN endpoints) :
          Done(p, MatchEndpointResult(endpoints, call[p].ei, order))
    /\ UNCHANGED <<endpoints, writer, readers, call, callers, pure>>

GetEndpointByEndpointID(p) ==
    /\ Running(p, "GetEndpointByEndpointID")
    /\ \E hOrd \in Orders(DOMAIN call[p].ei.HeadersToMatch),
          qOrd \in Orders(DOMAIN call[p].ei.QueryParamsToMatch) :
          Done(p, GetEndpointResult(endpoints, call[p].ei, GetID(call[p].ei, hOrd, qOrd)))
    /\ UNCHANGED <<endpoints, writer, readers, call, callers, pure>>

\* GetAllEndpointConfigurations that makes the slice with a length instead
\* of a capacity, so that the appended configurations follow zero values
GetAllEndpointConfigurationsPrefilled(p) ==
    /\ Running(p, "GetAllEndpointConfigurations")
    /\ \E order \in Orders(DOMAIN endpoints) :
          Done(p, Result(NoError, [i \in DOMAIN order |-> ZeroConfig]
                                  \o [i \in DOMAIN order |-> endpoints[order[i]]]))
    /\ UNCHANGED <<endpoints, writer, readers, call, callers, pure>>

GetAllEndpointConfigurations(p) ==
    /\ Running(p, "GetAllEndpointConfigurations")
    /\ \E order \in Orders(DOMAIN endpoints) :
          Done(p, Result(NoError, [i \in DOMAIN order |-> endpoints[order[i]]]))
    /\ UNCHANGED <<endpoints, writer, readers, call, callers, pure>>

\* DeleteEndpointByEndpointID without the existence test
DeleteEndpointByEndpointIDNoTest(p) ==
    /\ Running(p, "DeleteEndpointByEndpointID")
    /\ \E hOrd \in Orders(DOMAIN call[p].ei.HeadersToMatch),
          qOrd \in Orders(DOMAIN call[p].ei.QueryParamsToMatch) :
          /\ endpoints' = MapDelete(endpoints, {GetID(call[p].ei, hOrd, qOrd)})
          /\ Done(p, Result(NoError, << >>))
    /\ UNCHANGED <<writer, readers, call, callers, pure>>

DeleteEndpointByEndpointID(p) ==
    /\ Running(p, "DeleteEndpointByEndpointID")
    /\ \E hOrd \in Orders(DOMAIN call[p].ei.HeadersToMatch),
          qOrd \in Orders(DOMAIN call[p].ei.QueryParamsToMatch) :
          LET endpointID == GetID(call[p].ei, hOrd, qOrd)
          IN IF ~Exists(endpoints, endpointID)
             THEN Done(p, Result(ErrNotFound(endpointID), << >>)) /\ UNCHANGED endpoints
             ELSE /\ endpoints' = MapDelete(endpoints, {endpointID})
                  /\ Done(p, Result(NoError, << >>))
    /\ UNCHANGED <<writer, readers, call, callers, pure>>

\* DeleteEndpointByPath comparing the paths without regard to letter case
DeleteEndpointByPathFolded(p) ==
    /\ Running(p, "DeleteEndpointByPath")
    /\ endpoints' = MapDelete(endpoints,
          {k \in DOMAIN endpoints : ToLower(endpoints[k].EndpointID.Path) = ToLower(call[p].path)})
    /\ Done(p, Result(NoError, << >>))
    /\ UNCHANGED <<writer, readers, call, callers, pure>>

DeleteEndpointByPath(p) ==
    /\ Running(p, "DeleteEndpointByPath")
    /\ endpoints' = MapDelete(endpoints,
          {k \in DOMAIN endpoints : endpoints[k].EndpointID.Path = call[p].path})
    /\ Done(p, Result(NoError, << >>))
    /\ UNCHANGED <<writer, readers, call, callers, pure>>

\* DeleteEndpointByPathAndMethod that does not compare the methods
DeleteEndpointByPathAndMethodAnyMethod(p) ==
    /\ Running(p, "DeleteEndpointByPathAndMethod")
    /\ endpoints' = MapDelete(endpoints,
          {k \in DOMAIN endpoints : endpoints[k].EndpointID.Path = call[p].path})
    /\ Done(p, Result(NoError, << >>))
    /\ UNCHANGED <<writer, readers, call, callers, pure>>

DeleteEndpointByPathAndMethod(p) ==
    /\ Running(p, "DeleteEndpointByPathAndMethod")
    /\ endpoints' = MapDelete(endpoints,
          {k \in DOMAIN endpoints : /\ endpoints[k].EndpointID.Path = call[p].path
                                    /\ endpoints[k].EndpointID.HTTPMethod = call[p].method})
    /\ Done(p, Result(NoError, << >>))
    /\ UNCHANGED <<writer, readers, call, callers, pure>>

\* DeleteAllEndpoints whose loop stops after the first key
DeleteAllEndpointsFirstOnly(p) ==
    /\ Running(p, "DeleteAllEndpoints")
    /\ \E order \in Orders(DOMAIN endpoints) :
          endpoints' = MapDelete(endpoints, {order[i] : i \in DOMAIN order \cap {1}})
    /\ Done(p, Result(NoError, << >>))
    /\ UNCHANGED <<writer, readers, call, callers, pure>>

DeleteAllEndpoints(p) ==
    /\ Running(p, "DeleteAllEndpoints")
    /\ endpoints' = MapDelete(endpoints, DOMAIN endpoints)
    /\ Done(p, Result(NoError, << >>))
    /\ UNCHANGED <<writer, readers, call, callers, pure>>

\* the goroutines blocked in rm.mu.RLock(): Unlock lets all of them in
\* before the next writer
BlockedReaders == {q \in Procs : pc[q] = "wait" /\ call[q].op \in ReadOps}

\* an Unlock that is not deferred and is skipped by the error returns
UnlockOnSuccessOnly(p) ==
    /\ pc[p] = "done"
    /\ call[p].op \in WriteOps
    /\ writer' = IF ret[p].err = NoError THEN NoProc ELSE writer
    /\ readers' = IF ret[p].err = NoError THEN BlockedReaders ELSE readers
    /\ pc' = [q \in Procs |-> IF q = p THEN "idle"
                              ELSE IF ret[p].err = NoError /\ q \in BlockedReaders
                                   THEN "locked" ELSE pc[q]]
    /\ call' = [call EXCEPT ![p] = NoCall]
    /\ ret' = [ret EXCEPT ![p] = Pending]
    /\ UNCHANGED <<endpoints, callers, pure>>

\* the deferred rm.mu.Unlock(), and the return to the caller
Unlock(p) ==
    /\ pc[p] = "done"
    /\ call[p].op \in WriteOps
    /\ writer' = NoProc
    /\ readers' = BlockedReaders
    /\ pc' = [q \in Procs |-> IF q = p THEN "idle"
                              ELSE IF q \in BlockedReaders THEN "locked" ELSE pc[q]]
    /\ call' = [call EXCEPT ![p] = NoCall]
    /\ ret' = [ret EXCEPT ![p] = Pending]
    /\ UNCHANGED <<endpoints, callers, pure>>

\* an RUnlock that is not deferred and is skipped by the error returns
RUnlockOnSuccessOnly(p) ==
    /\ pc[p] = "done"
    /\ call[p].op \in ReadOps
    /\ readers' = IF ret[p].err = NoError THEN readers \ {p} ELSE readers
    /\ pc' = [pc EXCEPT ![p] = "idle"]
    /\ call' = [call EXCEPT ![p] = NoCall]
    /\ ret' = [ret EXCEPT ![p] = Pending]
    /\ UNCHANGED <<endpoints, writer, callers, pure>>

\* the deferred rm.mu.RUnlock(), and the return to the caller
RUnlock(p) ==
    /\ pc[p] = "done"
    /\ call[p].op \in ReadOps
    /\ readers' = readers \ {p}
    /\ pc' = [pc EXCEPT ![p] = "idle"]
    /\ call' = [call EXCEPT ![p] = NoCall]
    /\ ret' = [ret EXCEPT ![p] = Pending]
    /\ UNCHANGED <<endpoints, writer, callers, pure>>

Next ==
    \E p \in Procs :
        \/ Call(p)
        \/ Lock(p)
        \/ RLock(p)
        \/ AddEndpointCheck(p)
        \/ AddEndpointInsert(p)
        \/ MatchEndpoint(p)
        \/ GetEndpointByEndpointID(p)
        \/ GetAllEndpointConfigurations(p)
        \/ DeleteEndpointByEndpointID(p)
        \/ DeleteEndpointByPath(p)
        \/ DeleteEndpointByPathAndMethod(p)
        \/ DeleteAllEndpoints(p)
        \/ Unlock(p)
        \/ RUnlock(p)

Spec == Init /\ [][Next]_vars

\* ------------------------------------------- the package-level functions
PureKeys == {Str.KeyLowerW, Str.KeyLowerX, Str.KeyUpperX}
PureValues == {Str.ValLowerK, Str.ValUpperK}

\* the maps with at most MaxKeys keys
PureMaps ==
    UNION {[ks -> PureValues] : ks \in {t \in SUBSET PureKeys : Cardinality(t) <= MaxKeys}}

\* the maps with at most one key
PureSmallMaps == {m \in PureMaps : Cardinality(DOMAIN m) <= 1}

PureIDs ==
    {EID(pa, m, h, q) : pa \in {Str.PathLowerA, Str.PathUpperA}, m \in {MethodGET, MethodPOST},
                        h \in PureMaps, q \in PureMaps}

PureConfigs ==
    {Cfg(EID(pa, m, EmptyMap, EmptyMap), b, 200) :
        pa \in {EmptyStr, Str.PathLowerA},
        m \in validMethods \cup {EmptyStr, Str.MethodLowerGet},
        b \in {EmptyStr, Str.BodyR}}

\* the call that has run
Ran(fn) == pure.fn = fn /\ pc[1] = "done"

\* one package-level call is about to run on goroutine 1; no goroutine
\* calls the ResponseManager
InitPure ==
    /\ endpoints = [k \in {} |-> ZeroConfig]
    /\ writer = NoProc
    /\ readers = {}
    /\ pc = [p \in Procs |-> "idle"]
    /\ call = [p \in Procs |-> NoCall]
    /\ ret = [p \in Procs |-> Pending]
    /\ callers = {}
    /\ \/ \E ei \in PureIDs :
             \E hOrd \in Orders(DOMAIN ei.HeadersToMatch),
                qOrd \in Orders(DOMAIN ei.QueryParamsToMatch) :
                 pure = [NoPure EXCEPT !.fn = "GetID", !.ei = ei, !.hOrd = hOrd, !.qOrd = qOrd]
       \/ \E ec \in PureConfigs :
             pure = [NoPure EXCEPT !.fn = "ValidateEndpoint", !.ec = ec]
       \/ \E ech \in PureMaps, ecq \in PureSmallMaps, eih \in PureMaps, eiq \in PureSmallMaps :
             pure = [NoPure EXCEPT !.fn = "calculateMatch",
                                   !.ec = Cfg(EID(Str.PathLowerA, MethodGET, ech, ecq), Str.BodyR, 200),
                                   !.ei = EID(Str.PathLowerA, MethodGET, eih, eiq)]
       \/ \E h \in PureMaps, q \in PureSmallMaps, b \in {EmptyStr, Str.BodyR} :
             \E hOrd \in Orders(DOMAIN h), qOrd \in Orders(DOMAIN q),
                hOrd2 \in Orders(DOMAIN h), qOrd2 \in Orders(DOMAIN q) :
                 pure = [NoPure EXCEPT !.fn = "stubserver.AddThenGet",
                                       !.ec = Cfg(EID(Str.PathLowerA, MethodGET, h, q), b, 200),
                                       !.hOrd = hOrd, !.qOrd = qOrd,
                                       !.hOrd2 = hOrd2, !.qOrd2 = qOrd2]
       \/ \E text \in {Str.RS256, Str.RS384, Str.RS512, Str.HS256},
             kid \in {Str.KidM, Str.KidN}, decodes \in BOOLEAN :
             pure = [NoPure EXCEPT !.fn = "oktamock",
                                   !.env = [SIGNING_METHOD |-> text, KID |-> kid,
                                            decodes |-> decodes]]
       \/ \E header \in LogHeaders, q \in LogQueries, body \in LogBodies :
             \E hOrd \in Orders(DOMAIN header), qOrd \in Orders(DOMAIN q.parsed) :
                 pure = [NoPure EXCEPT !.fn = "logRequestContext",
                                       !.req = LogRequest(header, q.raw, q.parsed, body),
                                       !.hOrd = hOrd, !.qOrd = qOrd]

PureReturn(out) ==
    /\ pc[1] = "idle"
    /\ pure' = [pure EXCEPT !.out = out]
    /\ pc' = [pc EXCEPT ![1] = "done"]
    /\ UNCHANGED <<endpoints, writer, readers, call, ret, callers>>

CallGetID ==
    /\ pure.fn = "GetID"
    /\ PureReturn(GetID(pure.ei, pure.hOrd, pure.qOrd))

CallValidateEndpoint ==
    /\ pure.fn = "ValidateEndpoint"
    /\ PureReturn(ValidateEndpoint(pure.ec))

CallCalculateMatch ==
    /\ pure.fn = "calculateMatch"
    /\ PureReturn(calculateMatch(pure.ec, pure.ei))

CallLogRequestContext ==
    /\ pure.fn = "logRequestContext"
    /\ PureReturn(logRequestContext(pure.req, pure.hOrd, pure.qOrd))

\* internal/stub-server: AddEndpoint(ec) on a new ResponseManager, then
\* GetEndpointByEndpointID(&ec.EndpointID)
CallStubServerAddThenGet ==
    /\ pure.fn = "stubserver.AddThenGet"
    /\ LET added == StubServerAddEndpoint([k \in {} |-> ZeroConfig], pure.ec,
                                          StubServerGetID(pure.ec.EndpointID, pure.hOrd, pure.qOrd))
       IN PureReturn([add |-> added.err,
                      get |-> GetEndpointResult(added.endpoints, pure.ec.EndpointID,
                                 StubServerGetID(pure.ec.EndpointID, pure.hOrd2, pure.qOrd2))])

\* --------------------------------------------------------- the Okta mock
\* SigningMethod.UnmarshalText: the jwt signing method the text names
UnmarshalText(text) ==
    IF text = Str.RS256 THEN [err |-> NoError, actualMethod |-> "SigningMethodRS256"]
    ELSE IF text = Str.RS384 THEN [err |-> NoError, actualMethod |-> "SigningMethodRS384"]
    ELSE IF text = Str.RS512 THEN [err |-> NoError, actualMethod |-> "SigningMethodRS512"]
    ELSE [err |-> [err |-> "unsupported signing method", arg |-> text], actualMethod |-> "nil"]

\* Alg() of the jwt signing methods
Alg(actualMethod) ==
    IF actualMethod = "SigningMethodRS256" THEN Str.RS256
    ELSE IF actualMethod = "SigningMethodRS384" THEN Str.RS384
    ELSE Str.RS512

\* genRSAKeyAndJWK: the JWK of the generated key
genRSAKeyAndJWK(cfg) == [KeyID |-> cfg.KID, Algorithm |-> Alg(cfg.SigningMethod)]

\* handleGetJWKS: the keys served
handleGetJWKS(o) == <<o.jwkKey>>

\* handleGetValidJWT: the status, and the header of the token issued and the
\* method it is signed with
handleGetValidJWT(o, decodes) ==
    IF ~decodes THEN [status |-> StatusBadRequest, token |-> << >>]
    ELSE [status |-> StatusOK,
          token |-> <<[alg |-> Alg("SigningMethodRS256"), kid |-> o.jwkKey.KeyID,
                       signedWith |-> "SigningMethodRS256"]>>]

\* main: NewConfig parses the environment, NewOktaMockServer makes the key,
\* and the server answers GET /v1/keys and POST /token
CallOktaMock ==
    /\ pure.fn = "oktamock"
    /\ LET method == UnmarshalText(pure.env.SIGNING_METHOD)
           o == [jwkKey |-> genRSAKeyAndJWK([KID |-> pure.env.KID,
                                             SigningMethod |-> method.actualMethod])]
       IN IF method.err # NoError
          THEN PureReturn([err |-> method.err, keys |-> << >>, jwt |-> << >>])
          ELSE PureReturn([err |-> NoError, keys |-> handleGetJWKS(o),
                           jwt |-> handleGetValidJWT(o, pure.env.decodes).token])

NextPure ==
    \/ CallGetID
    \/ CallValidateEndpoint
    \/ CallCalculateMatch
    \/ CallLogRequestContext
    \/ CallStubServerAddThenGet
    \/ CallOktaMock

SpecPure == InitPure /\ [][NextPure]_vars

SpecConc == InitConc /\ [][Next]_vars

\* ----------------------------------------------------------- MatchEndpoint
\* the registered configurations whose path and method equal the request's
Candidates(eps, ei) ==
    {k \in DOMAIN eps : /\ eps[k].EndpointID.Path = ei.Path
                        /\ eps[k].EndpointID.HTTPMethod = ei.HTTPMethod}

\* the candidates that attain the maximum score
Best(eps, ei) ==
    {k \in Candidates(eps, ei) :
        \A j \in Candidates(eps, ei) : calculateMatch(eps[j], ei) <= calculateMatch(eps[k], ei)}

\* goroutine p has finished the body of op and is about to return ret[p]
Returning(p, op) == pc[p] = "done" /\ call[p].op = op

\* C1: MatchEndpoint returns the candidate that alone attains the maximum
\* score, however many lower-scoring candidates there are and whatever
\* their scores.
C1_UniqueBestReturned ==
    \A p \in Procs :
        Returning(p, "MatchEndpoint") =>
            \A k \in DOMAIN endpoints :
                Best(endpoints, call[p].ei) = {k} => ret[p] = Result(NoError, <<endpoints[k]>>)

\* C2: when two or more candidates tie at the maximum score MatchEndpoint
\* fails with the too-many-matches error and returns no configuration.
C2_TieIsAmbiguous ==
    \A p \in Procs :
        (Returning(p, "MatchEndpoint") /\ Cardinality(Best(endpoints, call[p].ei)) >= 2) =>
            /\ ret[p].err.err = "to many matches"
            /\ ret[p].val = NilConfig

C2_Witness ==
    \E p \in Procs :
        /\ Returning(p, "MatchEndpoint")
        /\ Cardinality(Best(endpoints, call[p].ei)) >= 2
        /\ ret[p].err.err = "to many matches"

\* C3: MatchEndpoint fails with the no-match error exactly when no registered
\* configuration has the request's path and method.
C3_NoMatchIffNoCandidate ==
    \A p \in Procs :
        Returning(p, "MatchEndpoint") =>
            (ret[p].err = ErrNoMatch(call[p].ei.Path) <=> Candidates(endpoints, call[p].ei) = {})

C3_Witness ==
    \E p \in Procs :
        /\ Returning(p, "MatchEndpoint")
        /\ endpoints # << >>
        /\ Candidates(endpoints, call[p].ei) = {}
        /\ ret[p].err = ErrNoMatch(call[p].ei.Path)

\* ------------------------------------------------------------- AddEndpoint
\* goroutine p is in AddEndpoint behind the duplicate check: about to insert,
\* or about to return nil
Passed(p) ==
    /\ call[p].op = "AddEndpoint"
    /\ \/ pc[p] = "insert"
       \/ pc[p] = "done" /\ ret[p].err = NoError

\* C5: two concurrent AddEndpoint calls with the same identity never both
\* get behind the duplicate check; the identity is absent until the one that
\* passed inserts, then it maps to that call's configuration, and a call
\* that returns the duplicate error found the identity registered.
C5_CheckThenInsertAtomic ==
    /\ \A p, q \in Procs :
          (p # q /\ Passed(p) /\ Passed(q)) =>
              ID(call[p].ec.EndpointID) # ID(call[q].ec.EndpointID)
    /\ \A p \in Procs :
          /\ pc[p] = "insert" => call[p].endpointID \notin DOMAIN endpoints
          /\ (Returning(p, "AddEndpoint") /\ ret[p].err = NoError) =>
                /\ ID(call[p].ec.EndpointID) \in DOMAIN endpoints
                /\ endpoints[ID(call[p].ec.EndpointID)] = call[p].ec
          /\ (Returning(p, "AddEndpoint") /\ ret[p].err.err = "endpoint already exists") =>
                /\ ret[p].err.arg = ID(call[p].ec.EndpointID)
                /\ ret[p].err.arg \in DOMAIN endpoints

\* one call has inserted and not yet returned while a concurrent call with
\* the same identity waits for the lock
C5_Witness ==
    \E p, q \in Procs :
        /\ p # q
        /\ Returning(p, "AddEndpoint") /\ ret[p].err = NoError
        /\ call[q].op = "AddEndpoint" /\ pc[q] = "wait"
        /\ ID(call[p].ec.EndpointID) = ID(call[q].ec.EndpointID)

\* the step in which goroutine p runs AddEndpoint up to the duplicate check
AddCheckStep(p) == Running(p, "AddEndpoint") /\ pc'[p] # "locked"

Registered(ei) == \E k \in DOMAIN endpoints : endpoints[k].EndpointID = ei

\* C6 as stated: AddEndpoint with a configuration whose EndpointID is
\* registered fails with the duplicate error and leaves the entries as they
\* were.
C6_DuplicateRejected ==
    [][\A p \in Procs :
          (AddCheckStep(p) /\ Registered(call[p].ec.EndpointID)) =>
              /\ pc'[p] = "done"
              /\ ret'[p].err.err = "endpoint already exists"
              /\ endpoints' = endpoints]_vars

\* C6 amended: AddEndpoint with a configuration that passes ValidateEndpoint
\* and whose EndpointID is registered fails with the duplicate error and
\* leaves the entries as they were.
C6_ValidDuplicateRejected ==
    [][\A p \in Procs :
          (/\ AddCheckStep(p)
           /\ Registered(call[p].ec.EndpointID)
           /\ ValidateEndpoint(call[p].ec) = NoError) =>
              /\ pc'[p] = "done"
              /\ ret'[p].err.err = "endpoint already exists"
              /\ endpoints' = endpoints]_vars

C6_Witness ==
    \E p \in Procs :
        /\ Returning(p, "AddEndpoint")
        /\ ret[p].err.err = "endpoint already exists"
        /\ Registered(call[p].ec.EndpointID)
        /\ endpoints[ID(call[p].ec.EndpointID)] # call[p].ec

\* C7: a configuration that AddEndpoint has stored is what
\* GetEndpointByEndpointID returns for its EndpointID, in every field, for
\* as long as no delete removes its entry: the insertion stores the
\* argument, no step changes an entry in place, new entries come from an
\* insertion only, and the lookup returns the entry.
C7_RoundTrip ==
    /\ [][\A p \in Procs :
            (pc[p] = "insert" /\ pc'[p] = "done") =>
                \A hOrd \in Orders(DOMAIN call[p].ec.EndpointID.HeadersToMatch),
                   qOrd \in Orders(DOMAIN call[p].ec.EndpointID.QueryParamsToMatch) :
                    GetEndpointResult(endpoints', call[p].ec.EndpointID,
                                      GetID(call[p].ec.EndpointID, hOrd, qOrd))
                        = Result(NoError, <<call[p].ec>>)]_vars
    /\ [][\A k \in DOMAIN endpoints' :
            IF k \in DOMAIN endpoints
            THEN endpoints'[k] = endpoints[k]
            ELSE \E p \in Procs : pc[p] = "insert" /\ pc'[p] = "done"
                                  /\ endpoints'[k] = call[p].ec]_vars
    /\ [](\A p \in Procs :
            Returning(p, "GetEndpointByEndpointID") =>
                \A k \in DOMAIN endpoints :
                    endpoints[k].EndpointID = call[p].ei =>
                        ret[p] = Result(NoError, <<endpoints[k]>>))

\* a lookup returns a configuration registered with status code 0 and the
\* second response body
C7_Witness ==
    \E p \in Procs :
        /\ Returning(p, "GetEndpointByEndpointID")
        /\ ret[p] = Result(NoError, <<Cfg(Id.Plain, Str.BodyS, 0)>>)

\* C8: every registered configuration has a non-empty path, a non-empty
\* response body and one of the six allowed methods.
C8_RegisteredAreValid ==
    \A k \in DOMAIN endpoints :
        /\ endpoints[k].EndpointID.Path # EmptyStr
        /\ endpoints[k].ResponseBody # EmptyStr
        /\ endpoints[k].EndpointID.HTTPMethod \in
              {MethodGET, MethodPOST, MethodPUT, MethodDELETE, MethodPATCH, MethodOPTIONS}

\* AddEndpoint has rejected a configuration without body on a registry
\* that holds entries
C8_Witness ==
    /\ endpoints # << >>
    /\ \E p \in Procs : Returning(p, "AddEndpoint") /\ ret[p].err = ErrMissingBody

\* ------------------------------------------------------------ the RWMutex
\* goroutine p is reading or modifying rm.endpoints
InMap(p) == pc[p] \in {"locked", "insert"}

\* C10: while a write operation is reading or modifying the entry map no
\* other operation accesses it; operations that overlap in the map are all
\* read operations.
C10_WritersExclusive ==
    \A p, q \in Procs :
        (p # q /\ InMap(p) /\ InMap(q)) =>
            (call[p].op \in ReadOps /\ call[q].op \in ReadOps)

\* a write operation is in the map while another goroutine waits for the
\* lock
C10_Witness ==
    \E p, q \in Procs :
        /\ p # q
        /\ InMap(p) /\ call[p].op \in WriteOps
        /\ pc[q] = "wait"

\* two read operations are in the map at once
C10_ReadersOverlap ==
    \E p, q \in Procs :
        p # q /\ InMap(p) /\ InMap(q) /\ call[p].op \in ReadOps /\ call[q].op \in ReadOps

\* ------------------------------------------------------------------- GetID
\* C4: GetID returns the same identity string whatever the order in which
\* the two maps are visited.
C4_OrderIndependent ==
    Ran("GetID") =>
        \A hOrd \in Orders(DOMAIN pure.ei.HeadersToMatch),
           qOrd \in Orders(DOMAIN pure.ei.QueryParamsToMatch) :
            GetID(pure.ei, hOrd, qOrd) = pure.out

\* GetID was called on maps of two keys each, both visited in descending
\* key order
C4_Witness ==
    /\ Ran("GetID")
    /\ Len(pure.hOrd) = 2 /\ StrLess(pure.hOrd[2], pure.hOrd[1])
    /\ Len(pure.qOrd) = 2 /\ StrLess(pure.qOrd[2], pure.qOrd[1])

\* -------------------------------------------------------- ValidateEndpoint
\* C9: ValidateEndpoint returns the missing-field error when path or method
\* is empty, otherwise the missing-body error when the body is empty,
\* otherwise the invalid-method error naming the method when it is not an
\* allowed verb, and nil otherwise.
C9_ValidatePrecedence ==
    Ran("ValidateEndpoint") =>
        LET path == pure.ec.EndpointID.Path
            method == pure.ec.EndpointID.HTTPMethod
            body == pure.ec.ResponseBody
            allowed == {MethodGET, MethodPOST, MethodPUT, MethodDELETE, MethodPATCH, MethodOPTIONS}
        IN /\ (path = << >> \/ method = << >>) =>
                 pure.out = [err |-> "path and method are required", arg |-> << >>]
           /\ (path # << >> /\ method # << >> /\ body = << >>) =>
                 pure.out = [err |-> "response body is required", arg |-> << >>]
           /\ (path # << >> /\ method # << >> /\ body # << >> /\ method \notin allowed) =>
                 pure.out = [err |-> "invalid HTTP method", arg |-> method]
           /\ (path # << >> /\ method # << >> /\ body # << >> /\ method \in allowed) =>
                 pure.out = [err |-> "nil", arg |-> << >>]

\* ValidateEndpoint was called with an empty path and an empty body
C9_Witness ==
    /\ Ran("ValidateEndpoint")
    /\ pure.ec.EndpointID.Path = << >>
    /\ pure.ec.ResponseBody = << >>
    /\ pure.out.err = "path and method are required"

\* -------------------------------------------------------------- visibility
\* the entry map shows the whole effect of every write that is about to
\* return
WritesApplied ==
    \A p \in Procs :
        /\ (Returning(p, "AddEndpoint") /\ ret[p].err = NoError) =>
              /\ ID(call[p].ec.EndpointID) \in DOMAIN endpoints
              /\ endpoints[ID(call[p].ec.EndpointID)] = call[p].ec
        /\ (Returning(p, "DeleteEndpointByEndpointID") /\ ret[p].err = NoError) =>
              ID(call[p].ei) \notin DOMAIN endpoints
        /\ Returning(p, "DeleteEndpointByPath") =>
              \A k \in DOMAIN endpoints : endpoints[k].EndpointID.Path # call[p].path
        /\ Returning(p, "DeleteEndpointByPathAndMethod") =>
              \A k \in DOMAIN endpoints :
                  \/ endpoints[k].EndpointID.Path # call[p].path
                  \/ endpoints[k].EndpointID.HTTPMethod # call[p].method
        /\ Returning(p, "DeleteAllEndpoints") => endpoints = << >>

\* what a read is about to return is the answer for the entry map as it is
\* now
ReadsCurrent ==
    \A p \in Procs :
        /\ Returning(p, "GetEndpointByEndpointID") =>
              ret[p] = GetEndpointResult(endpoints, call[p].ei, ID(call[p].ei))
        /\ Returning(p, "MatchEndpoint") =>
              \E order \in Orders(DOMAIN endpoints) :
                  ret[p] = MatchEndpointResult(endpoints, call[p].ei, order)
        /\ Returning(p, "GetAllEndpointConfigurations") =>
              /\ Len(ret[p].val) = Cardinality(DOMAIN endpoints)
              /\ \A k \in DOMAIN endpoints : \E i \in DOMAIN ret[p].val : ret[p].val[i] = endpoints[k]

\* C11: a read that starts after a write has returned observes that write:
\* a returning write has its whole effect in the entry map, the map changes
\* only in the step of a write operation that holds the lock, and a read
\* returns the answer for the map as it is while the read holds the lock.
C11_WritesVisible ==
    /\ [](WritesApplied /\ ReadsCurrent)
    /\ [][endpoints' # endpoints =>
            \E p \in Procs : /\ writer = p
                             /\ call[p].op \in WriteOps
                             /\ InMap(p)
                             /\ pc'[p] = "done"]_vars

\* one goroutine's lookup finds a configuration while another goroutine,
\* back from its call, is idle
C11_Witness ==
    \E p, q \in Procs :
        /\ p # q
        /\ q \in callers /\ pc[q] = "idle"
        /\ Returning(p, "GetEndpointByEndpointID")
        /\ ret[p] = Result(NoError, <<Cfg(Id.Plain, Str.BodyS, 0)>>)

\* ---------------------------------------------------------- calculateMatch
\* the request pairs (k, v) for which the candidate's map has v under k
Satisfied(reqMap, candMap) ==
    {k \in DOMAIN reqMap : k \in DOMAIN candMap /\ candMap[k] = reqMap[k]}

\* C12: calculateMatch is the number of request query pairs the candidate's
\* query map holds plus the number of request header pairs the candidate's
\* header map holds; pairs only the request has, and pairs with an equal
\* name and a different value, count 0.
C12_ScoreCountsSatisfiedPairs ==
    Ran("calculateMatch") =>
        pure.out = Cardinality(Satisfied(pure.ei.QueryParamsToMatch,
                                         pure.ec.EndpointID.QueryParamsToMatch))
                   + Cardinality(Satisfied(pure.ei.HeadersToMatch,
                                           pure.ec.EndpointID.HeadersToMatch))

\* the request has one header the candidate holds, one under a name the
\* candidate holds with another value, and a query pair only the request has
C12_Witness ==
    /\ Ran("calculateMatch")
    /\ pure.out = 1
    /\ Cardinality(DOMAIN pure.ei.HeadersToMatch) = 2
    /\ DOMAIN pure.ei.HeadersToMatch = DOMAIN pure.ec.EndpointID.HeadersToMatch
    /\ pure.ei.QueryParamsToMatch # EmptyMap
    /\ pure.ec.EndpointID.QueryParamsToMatch = EmptyMap

\* ----------------------------------------------- MatchEndpoint, continued
\* the number of constraints of a configuration
Constraints(ec) ==
    Cardinality(DOMAIN ec.EndpointID.QueryParamsToMatch)
    + Cardinality(DOMAIN ec.EndpointID.HeadersToMatch)

\* C13: when exactly one registered configuration has the request's path
\* and method MatchEndpoint returns it, whichever of its constraints the
\* request satisfies.
C13_SoleCandidateReturned ==
    \A p \in Procs :
        Returning(p, "MatchEndpoint") =>
            \A k \in DOMAIN endpoints :
                Candidates(endpoints, call[p].ei) = {k} =>
                    ret[p] = Result(NoError, <<endpoints[k]>>)

\* the sole candidate is returned to a request that satisfies none of its
\* constraints, on a registry that holds other entries too
C13_Witness ==
    \E p \in Procs :
        /\ Returning(p, "MatchEndpoint")
        /\ Cardinality(DOMAIN endpoints) >= 2
        /\ \E k \in DOMAIN endpoints :
              /\ Candidates(endpoints, call[p].ei) = {k}
              /\ Constraints(endpoints[k]) > 0
              /\ calculateMatch(endpoints[k], call[p].ei) = 0
              /\ ret[p] = Result(NoError, <<endpoints[k]>>)

ScoresDistinct(eps, ei) ==
    \A j, k \in Candidates(eps, ei) :
        j # k => calculateMatch(eps[j], ei) # calculateMatch(eps[k], ei)

ValuesFolded(m) == [k \in DOMAIN m |-> ToLower(m[k])]

\* two EndpointIDs that differ in the letter case of constraint values only
DiffersInValueCaseOnly(a, b) ==
    /\ a # b
    /\ a.Path = b.Path
    /\ a.HTTPMethod = b.HTTPMethod
    /\ ValuesFolded(a.HeadersToMatch) = ValuesFolded(b.HeadersToMatch)
    /\ ValuesFolded(a.QueryParamsToMatch) = ValuesFolded(b.QueryParamsToMatch)

\* C15: two EndpointIDs that differ only in the letter case of a header or
\* query value are distinct registrations: AddEndpoint of the second
\* succeeds on a registry that holds the first and nothing else.
C15_ValueCaseDistinct ==
    [][\A p \in Procs :
          (/\ AddCheckStep(p)
           /\ ValidateEndpoint(call[p].ec) = NoError
           /\ Cardinality(DOMAIN endpoints) = 1
           /\ \A k \in DOMAIN endpoints :
                 DiffersInValueCaseOnly(endpoints[k].EndpointID, call[p].ec.EndpointID)) =>
              pc'[p] = "insert"]_vars

\* C16: a request header pair counts toward the score whenever its name
\* equals a candidate header name ignoring letter case and the values are
\* equal; query pairs count as in C12.
C16_HeaderNamesFolded ==
    Ran("calculateMatch") =>
        pure.out = Cardinality(Satisfied(pure.ei.QueryParamsToMatch,
                                         pure.ec.EndpointID.QueryParamsToMatch))
                   + Cardinality({k \in DOMAIN pure.ei.HeadersToMatch :
                        \E j \in DOMAIN pure.ec.EndpointID.HeadersToMatch :
                            /\ ToLower(j) = ToLower(k)
                            /\ pure.ec.EndpointID.HeadersToMatch[j] = pure.ei.HeadersToMatch[k]})

\* ------------------------------------------------------- GetID, continued
\* the keys of a map in ascending order
Ascending(m) ==
    CHOOSE o \in Orders(DOMAIN m) : \A i, j \in DOMAIN o : i < j => StrLess(o[i], o[j])

\* ":name=value" for each of the keys, in their order
RECURSIVE Rendered(_, _)
Rendered(keys, m) ==
    IF Len(keys) = 0 THEN << >>
    ELSE <<58>> \o keys[1] \o <<61>> \o m[keys[1]] \o Rendered(SubSeq(keys, 2, Len(keys)), m)

\* C17: GetID is path ':' method, then ':name=value' for the header pairs in
\* ascending key order, then ':name=value' for the query pairs in ascending
\* key order, all in lower case.
C17_IdentityFormat ==
    Ran("GetID") =>
        pure.out = ToLower(pure.ei.Path \o <<58>> \o pure.ei.HTTPMethod
                           \o Rendered(Ascending(pure.ei.HeadersToMatch), pure.ei.HeadersToMatch)
                           \o Rendered(Ascending(pure.ei.QueryParamsToMatch),
                                       pure.ei.QueryParamsToMatch))

\* GetID ran on "/A" with two headers visited in descending key order, an
\* upper-case value among them, and a query pair
C17_Witness ==
    /\ Ran("GetID")
    /\ pure.ei.Path = Str.PathUpperA
    /\ Len(pure.hOrd) = 2 /\ StrLess(pure.hOrd[2], pure.hOrd[1])
    /\ \E k \in DOMAIN pure.ei.HeadersToMatch : pure.ei.HeadersToMatch[k] = Str.ValUpperK
    /\ Len(pure.qOrd) = 1
    /\ pure.ei.HeadersToMatch # pure.ei.QueryParamsToMatch

\* ------------------------------------------------ GetEndpointByEndpointID
\* the lookup is exact on the identity string
LookupByIdentity ==
    \A p \in Procs :
        Returning(p, "GetEndpointByEndpointID") =>
            IF ID(call[p].ei) \in DOMAIN endpoints
            THEN ret[p] = Result(NoError, <<endpoints[ID(call[p].ei)]>>)
            ELSE ret[p].err.err = "endpoint not found" /\ ret[p].val = <<ZeroConfig>>

\* the shape ei satisfies only some of the constraints of ec, or all of
\* them and has pairs of its own besides
PartialOrSuperset(ei, ec) ==
    /\ ei.Path = ec.EndpointID.Path
    /\ ei.HTTPMethod = ec.EndpointID.HTTPMethod
    /\ \/ calculateMatch(ec, ei) < Constraints(ec)
       \/ /\ calculateMatch(ec, ei) = Constraints(ec)
          /\ Cardinality(DOMAIN ei.QueryParamsToMatch) + Cardinality(DOMAIN ei.HeadersToMatch)
                > Constraints(ec)

BodyStep(p, op) == Running(p, op) /\ pc'[p] = "done"

\* the entries after the step are those entries before it whose key is in
\* keep, unchanged
Keeps(keep) ==
    /\ DOMAIN endpoints' = keep
    /\ \A k \in keep : endpoints'[k] = endpoints[k]

\* C19: DeleteEndpointByPath returns nil, removes every configuration with
\* the given path and leaves every other configuration as it was; with no
\* configuration at the path the registry is unchanged.
C19_DeleteByPath ==
    [][\A p \in Procs :
          BodyStep(p, "DeleteEndpointByPath") =>
              /\ ret'[p] = Result(NoError, << >>)
              /\ Keeps({k \in DOMAIN endpoints : endpoints[k].EndpointID.Path # call[p].path})
              /\ (\A k \in DOMAIN endpoints : endpoints[k].EndpointID.Path # call[p].path) =>
                    endpoints' = endpoints]_vars

\* "/a" has been deleted and the registration at "/A" is still there
C19_Witness ==
    \E p \in Procs :
        /\ Returning(p, "DeleteEndpointByPath")
        /\ call[p].path = Str.PathLowerA
        /\ Cardinality(DOMAIN endpoints) = 1
        /\ \E k \in DOMAIN endpoints : endpoints[k].EndpointID.Path = Str.PathUpperA

\* C20: DeleteEndpointByPathAndMethod returns nil, removes exactly the
\* configurations with the given path and method and leaves every other
\* configuration as it was.
C20_DeleteByPathAndMethod ==
    [][\A p \in Procs :
          BodyStep(p, "DeleteEndpointByPathAndMethod") =>
              /\ ret'[p] = Result(NoError, << >>)
              /\ Keeps({k \in DOMAIN endpoints :
                          \/ endpoints[k].EndpointID.Path # call[p].path
                          \/ endpoints[k].EndpointID.HTTPMethod # call[p].method})]_vars

\* GET "/a" has been deleted and the POST registration of "/a" is still
\* there
C20_Witness ==
    \E p \in Procs :
        /\ Returning(p, "DeleteEndpointByPathAndMethod")
        /\ call[p].path = Str.PathLowerA /\ call[p].method = MethodGET
        /\ Cardinality(DOMAIN endpoints) = 1
        /\ \E k \in DOMAIN endpoints :
              /\ endpoints[k].EndpointID.Path = Str.PathLowerA
              /\ endpoints[k].EndpointID.HTTPMethod = MethodPOST

\* ------------------------------------------------ DeleteEndpointByEndpointID
\* C21: when the identity of id is registered DeleteEndpointByEndpointID
\* returns nil, removes the entry with that identity and leaves every other
\* entry as it was; when it is not registered, as after a first delete of
\* the same id, it fails with the not-found error naming the identity and
\* leaves the registry unchanged.
C21_DeleteByID ==
    [][\A p \in Procs :
          BodyStep(p, "DeleteEndpointByEndpointID") =>
              IF ID(call[p].ei) \in DOMAIN endpoints
              THEN /\ ret'[p] = Result(NoError, << >>)
                   /\ Keeps(DOMAIN endpoints \ {ID(call[p].ei)})
              ELSE /\ ret'[p] = Result(ErrNotFound(ID(call[p].ei)), << >>)
                   /\ endpoints' = endpoints]_vars

\* a delete has removed its identity and two other entries are still
\* registered
C21_Witness ==
    \E p \in Procs :
        /\ Returning(p, "DeleteEndpointByEndpointID")
        /\ ret[p].err = NoError
        /\ ID(call[p].ei) \notin DOMAIN endpoints
        /\ Cardinality(DOMAIN endpoints) = 2

\* a delete of an identity that is not registered has failed on a registry
\* that holds other entries
C21_MissWitness ==
    \E p \in Procs :
        /\ Returning(p, "DeleteEndpointByEndpointID")
        /\ ret[p].err.err = "endpoint not found"
        /\ endpoints # << >>

\* -------------------------------------------------------- DeleteAllEndpoints
\* C22: DeleteAllEndpoints leaves the registry without entries; on the
\* emptied registry GetAllEndpointConfigurations returns an empty sequence
\* and AddEndpoint accepts every configuration that was registered before
\* the delete.
C22_DeleteAllEmpties ==
    /\ [][\A p \in Procs :
             BodyStep(p, "DeleteAllEndpoints") =>
                 /\ endpoints' = << >>
                 /\ \A k \in DOMAIN endpoints :
                       /\ ValidateEndpoint(endpoints[k]) = NoError
                       /\ ~Exists(endpoints', ID(endpoints[k].EndpointID))]_vars
    /\ [][\A p \in Procs :
             (BodyStep(p, "GetAllEndpointConfigurations") /\ endpoints = << >>) =>
                 ret'[p] = Result(NoError, << >>)]_vars
    /\ [][\A p \in Procs :
             (AddCheckStep(p) /\ endpoints = << >> /\ ValidateEndpoint(call[p].ec) = NoError) =>
                 pc'[p] = "insert"]_vars
    /\ [][\A p \in Procs :
             pc[p] = "insert" =>
                 /\ ret'[p] = Result(NoError, << >>)
                 /\ endpoints'[ID(call[p].ec.EndpointID)] = call[p].ec]_vars

\* DeleteAllEndpoints has returned and the registry is empty
C22_Witness ==
    \E p \in Procs :
        /\ Returning(p, "DeleteAllEndpoints")
        /\ ret[p] = Result(NoError, << >>)
        /\ endpoints = << >>

\* ---------------------------------------------- GetAllEndpointConfigurations
\* C23: GetAllEndpointConfigurations returns the registered configurations,
\* each exactly once: as many elements as there are registered identities,
\* every registered configuration among them, no element twice, and no
\* element on a registry without entries.
C23_ListsEachOnce ==
    \A p \in Procs :
        Returning(p, "GetAllEndpointConfigurations") =>
            /\ ret[p].err = NoError
            /\ Len(ret[p].val) = Cardinality(DOMAIN endpoints)
            /\ {ret[p].val[i] : i \in DOMAIN ret[p].val} = {endpoints[k] : k \in DOMAIN endpoints}
            /\ \A i, j \in DOMAIN ret[p].val : ret[p].val[i] = ret[p].val[j] => i = j
            /\ endpoints = << >> => ret[p].val = << >>

\* three configurations are registered and have been listed
C23_Witness ==
    \E p \in Procs :
        /\ Returning(p, "GetAllEndpointConfigurations")
        /\ Cardinality(DOMAIN endpoints) = 3
        /\ Len(ret[p].val) = 3

\* -------------------------------------------------------------- failed calls
\* the step in which goroutine p returns from its call to the caller
ReturnStep(p) == pc[p] = "done" /\ pc'[p] = "idle"

\* C24: a call that returns an error has not changed the entries, and when
\* it has returned the goroutine holds the lock neither as writer nor as
\* reader and is ready for its next call; with one caller the registry is
\* then in the state it had before the call.
C24_FailedCallsLeaveNoTrace ==
    /\ [][endpoints' # endpoints =>
             \E p \in Procs : pc[p] # "done" /\ pc'[p] = "done" /\ ret'[p].err = NoError]_vars
    /\ [][\A p \in Procs :
             (ReturnStep(p) /\ ret[p].err # NoError) =>
                 /\ endpoints' = endpoints
                 /\ writer' # p /\ p \notin readers'
                 /\ call'[p] = NoCall /\ ret'[p] = Pending
                 /\ Cardinality(callers) = 1 => (writer' = NoProc /\ readers' = {})]_vars

\* AddEndpoint is about to return the duplicate error and still holds the
\* write lock
C24_Witness ==
    \E p \in Procs :
        /\ Returning(p, "AddEndpoint")
        /\ ret[p].err.err = "endpoint already exists"
        /\ writer = p

\* ----------------------------------------------------- no update in place
\* C25: the configuration stored under an identity never changes while the
\* identity stays registered; a lookup of a registered identity returns the
\* stored configuration; an identity becomes registered only by the
\* insertion of a successful AddEndpoint, with that call's configuration,
\* and only when it was not registered, so that another configuration takes
\* its place only after a delete.
C25_NoUpdateInPlace ==
    /\ [][\A k \in DOMAIN endpoints \cap DOMAIN endpoints' : endpoints'[k] = endpoints[k]]_vars
    /\ [][\A k \in DOMAIN endpoints' \ DOMAIN endpoints :
             \E p \in Procs :
                 /\ pc[p] = "insert" /\ pc'[p] = "done"
                 /\ ret'[p].err = NoError
                 /\ k = ID(call[p].ec.EndpointID)
                 /\ endpoints'[k] = call[p].ec]_vars
    /\ [][\A p \in Procs :
             (pc[p] = "insert" /\ pc'[p] = "done") =>
                 ID(call[p].ec.EndpointID) \notin DOMAIN endpoints]_vars
    /\ [](\A p \in Procs :
             (Returning(p, "GetEndpointByEndpointID") /\ ID(call[p].ei) \in DOMAIN endpoints) =>
                 ret[p] = Result(NoError, <<endpoints[ID(call[p].ei)]>>))

\* AddEndpoint has refused a configuration that differs from the one stored
\* under its identity, and the stored one is still there
C25_Witness ==
    \E p \in Procs :
        /\ Returning(p, "AddEndpoint")
        /\ ret[p].err.err = "endpoint already exists"
        /\ ID(call[p].ec.EndpointID) \in DOMAIN endpoints
        /\ endpoints[ID(call[p].ec.EndpointID)] # call[p].ec

\* ------------------------------------------------- MatchEndpoint and order
\* C26: whatever the order in which range visits the entries, MatchEndpoint
\* returns the same configuration or fails with the same kind of error.
C26_MatchOrderIndependent ==
    \A p \in Procs :
        Returning(p, "MatchEndpoint") =>
            \A order \in Orders(DOMAIN endpoints) :
                /\ MatchEndpointResult(endpoints, call[p].ei, order).val = ret[p].val
                /\ MatchEndpointResult(endpoints, call[p].ei, order).err.err = ret[p].err.err

\* MatchEndpoint has returned a configuration chosen among three candidates
C26_Witness ==
    \E p \in Procs :
        /\ Returning(p, "MatchEndpoint")
        /\ Cardinality(Candidates(endpoints, call[p].ei)) = 3
        /\ ret[p].err = NoError

\* MatchEndpoint has reported a tie on a registry where two of three
\* candidates have the same score
C26_TieWitness ==
    \E p \in Procs :
        /\ Returning(p, "MatchEndpoint")
        /\ Cardinality(Candidates(endpoints, call[p].ei)) = 3
        /\ Cardinality(Best(endpoints, call[p].ei)) = 1
        /\ ret[p].err.err = "to many matches"

\* ------------------------------------------------------- the HTTP handlers
\* EndpointRequest, the JSON body of POST /stubserver/responses
EndpointRequest(path, method, query, headers, respHeaders, body, status) ==
    [Path |-> path, HTTPMethod |-> method,
     QueryParamsToMatch |-> query, HeadersToMatch |-> headers,
     ResponseHeaders |-> respHeaders, ResponseBody |-> body,
     ResponseStatusCode |-> status]

\* the EndpointConfiguration addResponse builds from a bound request
endpointConfig(request) ==
    [EndpointID |-> EID(request.Path, request.HTTPMethod,
                        request.HeadersToMatch, request.QueryParamsToMatch),
     ResponseHeaders |-> request.ResponseHeaders,
     ResponseBody |-> request.ResponseBody,
     ResponseStatusCode |-> request.ResponseStatusCode]

\* the EndpointResponse getAllResponses builds from a configuration
EndpointResponse(config) ==
    [Path |-> config.EndpointID.Path, HTTPMethod |-> config.EndpointID.HTTPMethod,
     QueryParamsToMatch |-> config.EndpointID.QueryParamsToMatch,
     HeadersToMatch |-> config.EndpointID.HeadersToMatch,
     ResponseHeaders |-> config.ResponseHeaders, ResponseBody |-> config.ResponseBody,
     ResponseStatusCode |-> config.ResponseStatusCode]

\* what a handler has written to the gin context: status, headers and body
Response(status, headers, body) == [status |-> status, headers |-> headers, body |-> body]

\* ErrorResponse{Error: msg}
ErrorResponse(msg) == [Error |-> msg]

\* the first value of every key that has one
flattenQueryParams(query) ==
    [key \in {k \in DOMAIN query : Len(query[k]) > 0} |-> query[key][1]]

flattenHeaders(header) ==
    [key \in {k \in DOMAIN header : Len(header[k]) > 0} |-> header[key][1]]

\* the EndpointID catchAll builds from the inbound request
catchAllEndpointID(request) ==
    EID(request.Path, request.Method,
        flattenHeaders(request.Header), flattenQueryParams(request.Query))


\* bodies of POST /stubserver/responses that bind; the last four are
\* refused
HTTPRegistrations ==
    {EndpointRequest(Str.PathLowerA, MethodGET, EmptyMap, EmptyMap, EmptyMap, Str.BodyR, 200),
     EndpointRequest(Str.PathLowerA, MethodGET, EmptyMap, EmptyMap, EmptyMap, Str.BodyS, 0),
     EndpointRequest(Str.PathLowerA, MethodGET, EmptyMap, Hdr.Xk, Str.KeyUpperW :> Str.ValLowerK, Str.BodyR, 202),
     EndpointRequest(Str.PathLowerA, MethodGET, Hdr.Xj, EmptyMap, EmptyMap, Str.BodyR, 201),
     EndpointRequest(Str.PathLowerA, MethodPOST, EmptyMap, EmptyMap, EmptyMap, Str.BodyS, 0),
     EndpointRequest(EmptyStr, MethodGET, EmptyMap, EmptyMap, EmptyMap, Str.BodyR, 200),
     EndpointRequest(Str.PathLowerA, EmptyStr, EmptyMap, EmptyMap, EmptyMap, Str.BodyR, 200),
     EndpointRequest(Str.PathLowerA, MethodGET, EmptyMap, EmptyMap, EmptyMap, EmptyStr, 200),
     EndpointRequest(Str.PathLowerA, Str.MethodLowerGet, EmptyMap, EmptyMap, EmptyMap, Str.BodyR, 200)}

\* url.Values of inbound requests
HTTPQueries ==
    {EmptyMap, Str.KeyLowerX :> <<Str.ValLowerK>>, Str.KeyLowerX :> <<Str.ValLowerJ>>,
     Str.KeyLowerX :> <<Str.ValLowerK, Str.ValLowerJ>>}

\* http.Header of inbound requests, the names in canonical form
HTTPHeaders ==
    {EmptyMap, Str.KeyUpperX :> <<Str.ValLowerK>>, Str.KeyUpperX :> <<Str.ValLowerJ>>,
     (Str.KeyUpperX :> <<Str.ValLowerK>>) @@ (Str.KeyUpperW :> <<Str.ValLowerK>>)}

\* inbound requests no route is registered for
HTTPRequests ==
    {[Method |-> m, Path |-> Str.PathLowerA, Query |-> q, Header |-> h] :
        m \in {MethodGET, MethodPOST}, q \in HTTPQueries, h \in HTTPHeaders}

NoRequest == [Method |-> EmptyStr, Path |-> EmptyStr, Query |-> EmptyMap, Header |-> EmptyMap]

\* a request as the router hands it to handler op: json holds the bound
\* body when the body is valid JSON
HTTPCall(op, json, request) == [op |-> op, json |-> json, request |-> request]

\* NewServer, serving one request at a time
InitHTTP == InitWith({1})

\* the router dispatches a request to its handler
Request(p) ==
    /\ p \in callers
    /\ pc[p] = "idle"
    /\ \E c \in
          {HTTPCall("addResponse", j, NoRequest) : j \in
              IF Cardinality(DOMAIN endpoints) < MaxEndpoints
              THEN {<<r>> : r \in HTTPRegistrations} \cup {<< >>} ELSE {}}
          \cup {HTTPCall("catchAll", << >>, r) : r \in HTTPRequests}
          \cup {HTTPCall(o, << >>, NoRequest) :
                   o \in {"health", "getAllResponses", "deleteAllResponses"}} :
          call' = [call EXCEPT ![p] = c]
    /\ pc' = [pc EXCEPT ![p] = "handle"]
    /\ UNCHANGED <<endpoints, writer, readers, ret, callers, pure>>

Handling(p, op) == pc[p] = "handle" /\ call[p].op = op

\* the handler returns with the response written
Written(p, response) ==
    /\ pc' = [pc EXCEPT ![p] = "done"]
    /\ ret' = [ret EXCEPT ![p] = response]

health(p) ==
    /\ Handling(p, "health")
    /\ Written(p, Response(StatusOK, EmptyMap, EmptyStr))
    /\ UNCHANGED <<endpoints, writer, readers, call, callers, pure>>

ErrInvalidBody == [err |-> "Invalid request body", arg |-> << >>]
ErrPathMethodRequired == [err |-> "Path and HTTP method are required", arg |-> << >>]
ErrBodyRequired == [err |-> "Response body is required", arg |-> << >>]

\* rm.AddEndpoint as addResponse calls it: the error it returns and the
\* entries it leaves
AddEndpointCall(ec, endpointID) ==
    IF ValidateEndpoint(ec) # NoError
    THEN [err |-> ValidateEndpoint(ec), endpoints |-> endpoints]
    ELSE IF Exists(endpoints, endpointID)
         THEN [err |-> ErrExists(endpointID), endpoints |-> endpoints]
         ELSE [err |-> NoError, endpoints |-> MapPut(endpoints, endpointID, ec)]

\* addResponse that answers 200 whatever AddEndpoint returns
addResponseIgnoresError(p) ==
    /\ Handling(p, "addResponse")
    /\ LockFree
    /\ IF call[p].json = << >>
       THEN Written(p, Response(StatusBadRequest, EmptyMap, ErrorResponse(ErrInvalidBody)))
            /\ UNCHANGED endpoints
       ELSE LET request == call[p].json[1]
            IN IF request.Path = EmptyStr \/ request.HTTPMethod = EmptyStr
               THEN Written(p, Response(StatusBadRequest, EmptyMap,
                                        ErrorResponse(ErrPathMethodRequired)))
                    /\ UNCHANGED endpoints
               ELSE IF request.ResponseBody = EmptyStr
                    THEN Written(p, Response(StatusBadRequest, EmptyMap,
                                             ErrorResponse(ErrBodyRequired)))
                         /\ UNCHANGED endpoints
                    ELSE \E hOrd \in Orders(DOMAIN request.HeadersToMatch),
                            qOrd \in Orders(DOMAIN request.QueryParamsToMatch) :
                            LET ec == endpointConfig(request)
                                r == AddEndpointCall(ec, GetID(ec.EndpointID, hOrd, qOrd))
                            IN /\ endpoints' = r.endpoints
                               /\ Written(p, Response(StatusOK, EmptyMap, EmptyStr))
    /\ UNCHANGED <<writer, readers, call, callers, pure>>

\* POST /stubserver/responses; AddEndpoint takes and releases the write
\* lock within the handler
addResponse(p) ==
    /\ Handling(p, "addResponse")
    /\ LockFree
    /\ IF call[p].json = << >>
       THEN Written(p, Response(StatusBadRequest, EmptyMap, ErrorResponse(ErrInvalidBody)))
            /\ UNCHANGED endpoints
       ELSE LET request == call[p].json[1]
            IN IF request.Path = EmptyStr \/ request.HTTPMethod = EmptyStr
               THEN Written(p, Response(StatusBadRequest, EmptyMap,
                                        ErrorResponse(ErrPathMethodRequired)))
                    /\ UNCHANGED endpoints
               ELSE IF request.ResponseBody = EmptyStr
                    THEN Written(p, Response(StatusBadRequest, EmptyMap,
                                             ErrorResponse(ErrBodyRequired)))
                         /\ UNCHANGED endpoints
                    ELSE \E hOrd \in Orders(DOMAIN request.HeadersToMatch),
                            qOrd \in Orders(DOMAIN request.QueryParamsToMatch) :
                            LET ec == endpointConfig(request)
                                r == AddEndpointCall(ec, GetID(ec.EndpointID, hOrd, qOrd))
                            IN /\ endpoints' = r.endpoints
                               /\ IF r.err # NoError
                                  THEN Written(p, Response(StatusBadRequest, EmptyMap,
                                                           ErrorResponse(r.err)))
                                  ELSE Written(p, Response(StatusOK, EmptyMap, EmptyStr))
    /\ UNCHANGED <<writer, readers, call, callers, pure>>

\* GET /stubserver/responses
getAllResponses(p) ==
    /\ Handling(p, "getAllResponses")
    /\ RLockFree
    /\ \E order \in Orders(DOMAIN endpoints) :
          Written(p, Response(StatusOK, EmptyMap,
                     [Endpoints |-> [i \in DOMAIN order |-> EndpointResponse(endpoints[order[i]])]]))
    /\ UNCHANGED <<endpoints, writer, readers, call, callers, pure>>

\* DELETE /stubserver/responses
deleteAllResponses(p) ==
    /\ Handling(p, "deleteAllResponses")
    /\ LockFree
    /\ endpoints' = MapDelete(endpoints, DOMAIN endpoints)
    /\ Written(p, Response(StatusOK, EmptyMap, EmptyStr))
    /\ UNCHANGED <<writer, readers, call, callers, pure>>

\* catchAll that writes the stored status code as it is
catchAllNoDefault(p) ==
    /\ Handling(p, "catchAll")
    /\ RLockFree
    /\ LET endpointID == catchAllEndpointID(call[p].request)
       IN \E hOrd \in Orders(DOMAIN endpointID.HeadersToMatch),
             qOrd \in Orders(DOMAIN endpointID.QueryParamsToMatch) :
             LET r == GetEndpointResult(endpoints, endpointID, GetID(endpointID, hOrd, qOrd))
                 config == r.val[1]
             IN IF r.err # NoError
                THEN Written(p, Response(StatusNotFound, EmptyMap, EmptyStr))
                ELSE Written(p, Response(config.ResponseStatusCode,
                                         config.ResponseHeaders, config.ResponseBody))
    /\ UNCHANGED <<endpoints, writer, readers, call, callers, pure>>

\* the NoRoute handler: look the request up with GetEndpointByEndpointID
\* and render the configuration found
catchAll(p) ==
    /\ Handling(p, "catchAll")
    /\ RLockFree
    /\ LET endpointID == catchAllEndpointID(call[p].request)
       IN \E hOrd \in Orders(DOMAIN endpointID.HeadersToMatch),
             qOrd \in Orders(DOMAIN endpointID.QueryParamsToMatch) :
             LET r == GetEndpointResult(endpoints, endpointID, GetID(endpointID, hOrd, qOrd))
                 config == r.val[1]
                 statusCode == IF config.ResponseStatusCode = 0
                               THEN StatusOK ELSE config.ResponseStatusCode
             IN IF r.err # NoError
                THEN Written(p, Response(StatusNotFound, EmptyMap, EmptyStr))
                ELSE Written(p, Response(statusCode, config.ResponseHeaders, config.ResponseBody))
    /\ UNCHANGED <<endpoints, writer, readers, call, callers, pure>>

\* the response goes out and the server takes the next request
Respond(p) ==
    /\ pc[p] = "done"
    /\ call[p].op \in {"health", "addResponse", "getAllResponses", "deleteAllResponses", "catchAll",
                       "handler.health", "handler.handleResponses", "handler.catchAll"}
    /\ pc' = [pc EXCEPT ![p] = "idle"]
    /\ call' = [call EXCEPT ![p] = NoCall]
    /\ ret' = [ret EXCEPT ![p] = Pending]
    /\ UNCHANGED <<endpoints, writer, readers, callers, pure>>

NextHTTP ==
    \E p \in Procs :
        \/ Request(p)
        \/ health(p)
        \/ addResponse(p)
        \/ getAllResponses(p)
        \/ deleteAllResponses(p)
        \/ catchAll(p)
        \/ Respond(p)

SpecHTTP == InitHTTP /\ [][NextHTTP]_vars

\* ------------------------------------------------------------------ catchAll
\* the configuration as catchAll renders it
Render(config) ==
    Response(IF config.ResponseStatusCode = 0 THEN StatusOK ELSE config.ResponseStatusCode,
             config.ResponseHeaders, config.ResponseBody)

\* C27: when exactly one configuration is registered for the path and
\* method of an inbound request, catchAll answers with that configuration's
\* status code, response headers and body, whatever the request's query
\* parameters and headers are.
C27_SoleRegistrationServed ==
    \A p \in Procs :
        Returning(p, "catchAll") =>
            \A k \in DOMAIN endpoints :
                Candidates(endpoints, catchAllEndpointID(call[p].request)) = {k} =>
                    ret[p] = Render(endpoints[k])

\* the step in which handler op serves the request of goroutine p
HandlerStep(p, op) == Handling(p, op) /\ pc'[p] = "done"

\* addResponse refuses the request: a required field is empty, the method
\* is not an allowed verb, or the identity is registered
Refused(request) ==
    \/ request.Path = EmptyStr
    \/ request.HTTPMethod = EmptyStr
    \/ request.ResponseBody = EmptyStr
    \/ request.HTTPMethod \notin validMethods
    \/ ID(endpointConfig(request).EndpointID) \in DOMAIN endpoints

\* C28: POST /stubserver/responses answers 200 exactly when the
\* configuration has been added under its identity, and otherwise 400; a
\* request with an empty path, method or response body, a method that is
\* not an allowed verb or a registered identity is answered 400 with an
\* error message and leaves the entries as they were.
C28_AddResponseStatus ==
    [][\A p \in Procs :
          HandlerStep(p, "addResponse") =>
              /\ ret'[p].status \in {StatusOK, StatusBadRequest}
              /\ ret'[p].status = StatusOK <=> endpoints' # endpoints
              /\ ret'[p].status = StatusOK =>
                    LET ec == endpointConfig(call[p].json[1])
                    IN /\ ID(ec.EndpointID) \notin DOMAIN endpoints
                       /\ endpoints' = MapPut(endpoints, ID(ec.EndpointID), ec)
              /\ (call[p].json # << >> /\ Refused(call[p].json[1])) =>
                    /\ ret'[p].status = StatusBadRequest
                    /\ ret'[p].body.Error.err \in
                          {"Path and HTTP method are required", "Response body is required",
                           "invalid HTTP method", "endpoint already exists"}
                    /\ endpoints' = endpoints]_vars

\* a registration whose identity is registered with another body has been
\* answered 400
C28_Witness ==
    \E p \in Procs :
        /\ Returning(p, "addResponse")
        /\ ret[p].status = StatusBadRequest
        /\ ret[p].body.Error.err = "endpoint already exists"
        /\ \E k \in DOMAIN endpoints :
              /\ k = ret[p].body.Error.arg
              /\ endpoints[k] # endpointConfig(call[p].json[1])

\* C29: catchAll answers with status 200 when the configuration it renders
\* has ResponseStatusCode 0, and with the stored code otherwise.
C29_StatusDefault ==
    \A p \in Procs :
        (Returning(p, "catchAll") /\ ID(catchAllEndpointID(call[p].request)) \in DOMAIN endpoints) =>
            LET config == endpoints[ID(catchAllEndpointID(call[p].request))]
            IN /\ config.ResponseStatusCode = 0 => ret[p].status = StatusOK
               /\ config.ResponseStatusCode # 0 => ret[p].status = config.ResponseStatusCode
               /\ ret[p].body = config.ResponseBody

\* a configuration stored with status code 0 has been served with 200
C29_Witness ==
    \E p \in Procs :
        /\ Returning(p, "catchAll")
        /\ ID(catchAllEndpointID(call[p].request)) \in DOMAIN endpoints
        /\ endpoints[ID(catchAllEndpointID(call[p].request))].ResponseStatusCode = 0
        /\ ret[p].status = StatusOK

\* a configuration stored with status code 202 has been served with 202
C29_StoredWitness ==
    \E p \in Procs :
        /\ Returning(p, "catchAll")
        /\ ID(catchAllEndpointID(call[p].request)) \in DOMAIN endpoints
        /\ endpoints[ID(catchAllEndpointID(call[p].request))].ResponseStatusCode = 202
        /\ ret[p].status = 202

\* --------------------------------------------------------- logRequestContext
\* needle occurs in hay
Contains(hay, needle) ==
    \E i \in 0..(Len(hay) - Len(needle)) : SubSeq(hay, i + 1, i + Len(needle)) = needle

\* the header names of request r that spell Authorization in some letter
\* case
AuthorizationNames(r) == {n \in DOMAIN r.Header : ToLower(n) = Str.NameLowerAuthorization}

\* request r with the given values in place of those of its Authorization
\* headers
WithAuthorization(r, values) ==
    [r EXCEPT !.Header = [n \in DOMAIN r.Header |->
                             IF n \in AuthorizationNames(r) THEN values[n] ELSE r.Header[n]]]

\* C30: the output of logRequestContext does not depend on the values of
\* the Authorization headers and does not contain them: a request that
\* differs only in these values gives the same output, every header whose
\* name is Authorization in some letter case is written as "  name: *****",
\* and none of its values occurs in the output.
C30_AuthorizationMasked ==
    Ran("logRequestContext") =>
        /\ \A values \in [AuthorizationNames(pure.req) -> LogSecrets] :
              logRequestContext(WithAuthorization(pure.req, values), pure.hOrd, pure.qOrd) = pure.out
        /\ \A n \in AuthorizationNames(pure.req) :
              /\ Contains(pure.out, Lit.Indent \o n \o Lit.Masked)
              /\ \A i \in DOMAIN pure.req.Header[n] : ~Contains(pure.out, pure.req.Header[n][i])

\* a request with an "authorization" header in lower case and another
\* header has been logged
C30_Witness ==
    /\ Ran("logRequestContext")
    /\ Str.NameLowerAuthorization \in DOMAIN pure.req.Header
    /\ Str.KeyUpperX \in DOMAIN pure.req.Header
    /\ Contains(pure.out, Lit.Indent \o Str.NameLowerAuthorization \o Lit.Masked)
    /\ Contains(pure.out, Lit.Indent \o Str.KeyUpperX \o Lit.ColonSpace \o Str.ValLowerK \o Lit.Newline)

\* ------------------------------------------------- identities and EndpointIDs
\* C34: AddEndpoint returns the duplicate error only when a configuration
\* with an equal EndpointID is registered; a registration constrained by a
\* header pair and one constrained by the same pair as query parameter can
\* both be registered.
C34_DuplicateOnlyForEqualEndpointID ==
    [][\A p \in Procs :
          (AddCheckStep(p) /\ pc'[p] = "done" /\ ret'[p].err.err = "endpoint already exists") =>
              Registered(call[p].ec.EndpointID)]_vars

\* C35: when DeleteEndpointByPath has run for a path, the registry holds no
\* identity of a valid configuration with that path, so that AddEndpoint
\* accepts each of them.
C35_PathFreeAfterDelete ==
    [][\A p \in Procs :
          BodyStep(p, "DeleteEndpointByPath") =>
              \A ec \in InputConfigs :
                  (ValidateEndpoint(ec) = NoError /\ ec.EndpointID.Path = call[p].path) =>
                      ~Exists(endpoints', ID(ec.EndpointID))]_vars

\* C38: every entry is stored under the identity of its configuration's
\* EndpointID; GetEndpointByEndpointID with the EndpointID of a registered
\* configuration returns that configuration and DeleteEndpointByEndpointID
\* with it removes that entry.
C38_KeyIsIdentity ==
    /\ [](\A k \in DOMAIN endpoints : k = ID(endpoints[k].EndpointID))
    /\ [][\A p \in Procs : \A k \in DOMAIN endpoints :
             call[p].ei = endpoints[k].EndpointID =>
                 /\ BodyStep(p, "GetEndpointByEndpointID") =>
                       ret'[p] = Result(NoError, <<endpoints[k]>>)
                 /\ BodyStep(p, "DeleteEndpointByEndpointID") =>
                       /\ ret'[p] = Result(NoError, << >>)
                       /\ Keeps(DOMAIN endpoints \ {k})]_vars

\* a configuration with header and query constraints has been removed
\* through its own EndpointID and two other entries are still registered
C38_Witness ==
    \E p \in Procs :
        /\ Returning(p, "DeleteEndpointByEndpointID")
        /\ call[p].ei = Id.Both
        /\ ret[p].err = NoError
        /\ Cardinality(DOMAIN endpoints) = 2
        /\ \A k \in DOMAIN endpoints : k = ID(endpoints[k].EndpointID)


\* ---------------------------------------------------- fair scheduling
\* the statements of an operation between taking the lock and the return
Body(p) ==
    \/ AddEndpointCheck(p)
    \/ AddEndpointInsert(p)
    \/ MatchEndpoint(p)
    \/ GetEndpointByEndpointID(p)
    \/ GetAllEndpointConfigurations(p)
    \/ DeleteEndpointByEndpointID(p)
    \/ DeleteEndpointByPath(p)
    \/ DeleteEndpointByPathAndMethod(p)
    \/ DeleteAllEndpoints(p)

\* The scheduler runs every goroutine that can run: a goroutine that holds
\* the lock finishes its body and its deferred unlock, and a reader that can
\* take the lock takes it.  sync.RWMutex serialises writers through a
\* sync.Mutex, whose starvation mode hands the lock to a writer that keeps
\* waiting: a writer for which the lock is free again and again gets it.
Fairness ==
    \A p \in Procs :
        /\ WF_vars(Body(p) \/ Unlock(p) \/ RUnlock(p) \/ RLock(p))
        /\ SF_vars(Lock(p))

SpecConcFair == InitConc /\ [][Next]_vars /\ Fairness

\* C37: every operation releases the lock it took when it returns, with
\* an error or without, and holds it only between taking it and returning;
\* under fair scheduling every call issued by any of the concurrent callers
\* eventually returns: no caller stays in a call forever.
C37_EveryCallReturns ==
    /\ [](\A p \in Procs :
            (writer = p \/ p \in readers) => pc[p] \in {"locked", "insert", "done"})
    /\ [][\A p \in Procs : ReturnStep(p) => (writer' # p /\ p \notin readers')]_vars
    /\ \A p \in Procs : []<>(pc[p] = "idle")

\* a call about to return an error while it holds the lock another caller
\* waits for
C37_Witness ==
    \E p, q \in Procs :
        /\ pc[p] = "done" /\ ret[p].err # NoError
        /\ (writer = p \/ p \in readers)
        /\ pc[q] = "wait"


\* C33: in internal/stub-server, after AddEndpoint(C) succeeds
\* GetEndpointByEndpointID(C.EndpointID) returns C, also when C has two or
\* more header constraints.
C33_StubServerRoundTrip ==
    (Ran("stubserver.AddThenGet") /\ pure.out.add = NoError) =>
        pure.out.get = Result(NoError, <<pure.ec>>)


\* C39: for every accepted SIGNING_METHOD the algorithm of an issued token
\* is the algorithm the JWKS endpoint advertises for the key, and the
\* token's kid is that key's key ID.
C39_TokenMatchesJWK ==
    (Ran("oktamock") /\ pure.out.err = NoError /\ pure.out.jwt # << >>) =>
        /\ pure.out.jwt[1].alg = pure.out.keys[1].Algorithm
        /\ pure.out.jwt[1].signedWith = UnmarshalText(pure.out.keys[1].Algorithm).actualMethod
        /\ pure.out.jwt[1].kid = pure.out.keys[1].KeyID


\* ------------------------------- cmd/mcvs-stub-server: the path-keyed handler
\* h.endpoints maps a path to the decoded response; h.mu is the RWMutex
\* `writer` and `readers` stand for.

\* the texts http.Error and http.NotFound write
HandlerErr ==
    [MethodNotAllowed |-> [err |-> "Method not allowed", arg |-> << >>],
     InvalidBody |-> [err |-> "Invalid request body", arg |-> << >>],
     PathRequired |-> [err |-> "Path is required", arg |-> << >>],
     ResponseRequired |-> [err |-> "Response is required", arg |-> << >>],
     NotFound |-> [err |-> "404 page not found", arg |-> << >>]]

\* json.Marshal of a decoded JSON string
Marshal(response) == <<34>> \o response[1] \o <<34>>

\* the bodies of POST /stubserver/responses that decode: Response is << >>
\* for a null or missing response
HandlerBodies ==
    {[Path |-> pa, Response |-> r] :
        pa \in {EmptyStr, Str.PathLowerA, Str.PathUpperA},
        r \in {<< >>, <<Str.BodyR>>, <<Str.BodyS>>}}

\* the mux dispatches a request: /health, /stubserver/responses, or any
\* other path
HandlerRequest(p) ==
    /\ p \in callers
    /\ pc[p] = "idle"
    /\ \E c \in
          {HTTPCall("handler.health", << >>, NoRequest)}
          \cup {HTTPCall("handler.handleResponses", j, [NoRequest EXCEPT !.Method = MethodPOST]) :
                   j \in {<<b>> : b \in HandlerBodies} \cup {<< >>}}
          \cup {HTTPCall("handler.handleResponses", << >>, [NoRequest EXCEPT !.Method = m]) :
                   m \in {MethodGET, MethodDELETE, MethodPATCH}}
          \cup {HTTPCall("handler.catchAll", << >>, [NoRequest EXCEPT !.Method = MethodGET, !.Path = pa]) :
                   pa \in {Str.PathLowerA, Str.PathUpperA}} :
          call' = [call EXCEPT ![p] = c]
    /\ pc' = [pc EXCEPT ![p] = "handle"]
    /\ UNCHANGED <<endpoints, writer, readers, ret, callers, pure>>

handler_health(p) ==
    /\ Handling(p, "handler.health")
    /\ Written(p, Response(StatusOK, EmptyMap, EmptyStr))
    /\ UNCHANGED <<endpoints, writer, readers, call, callers, pure>>

\* handleResponses, the default case of the switch on r.Method
handler_handleResponses(p) ==
    /\ Handling(p, "handler.handleResponses")
    /\ call[p].request.Method \notin {MethodDELETE, MethodPOST, MethodGET}
    /\ Written(p, Response(StatusMethodNotAllowed, EmptyMap, HandlerErr.MethodNotAllowed))
    /\ UNCHANGED <<endpoints, writer, readers, call, callers, pure>>

\* a delete-all that answers 200 and keeps the map
handler_deleteAllResponsesKeeps(p) ==
    /\ Handling(p, "handler.handleResponses")
    /\ call[p].request.Method = MethodDELETE
    /\ Written(p, Response(StatusOK, EmptyMap, EmptyStr))
    /\ UNCHANGED <<endpoints, writer, readers, call, callers, pure>>

\* DELETE /stubserver/responses: h.endpoints is replaced, h.mu is not taken
handler_deleteAllResponses(p) ==
    /\ Handling(p, "handler.handleResponses")
    /\ call[p].request.Method = MethodDELETE
    /\ endpoints' = [k \in {} |-> << >>]
    /\ Written(p, Response(StatusOK, EmptyMap, EmptyStr))
    /\ UNCHANGED <<writer, readers, call, callers, pure>>

\* addResponse without the check of request.Response
handler_addResponseNilAllowed(p) ==
    /\ Handling(p, "handler.handleResponses")
    /\ call[p].request.Method = MethodPOST
    /\ IF call[p].json = << >>
       THEN Written(p, Response(StatusBadRequest, EmptyMap, HandlerErr.InvalidBody))
            /\ UNCHANGED writer
       ELSE IF call[p].json[1].Path = EmptyStr
            THEN Written(p, Response(StatusBadRequest, EmptyMap, HandlerErr.PathRequired))
                 /\ UNCHANGED writer
            ELSE /\ LockFree
                 /\ writer' = p
                 /\ pc' = [pc EXCEPT ![p] = "locked"]
                 /\ UNCHANGED ret
    /\ UNCHANGED <<endpoints, readers, call, callers, pure>>

\* POST /stubserver/responses up to h.mu.Lock(): the request is refused, or
\* the goroutine takes the write lock
handler_addResponse(p) ==
    /\ Handling(p, "handler.handleResponses")
    /\ call[p].request.Method = MethodPOST
    /\ IF call[p].json = << >>
       THEN Written(p, Response(StatusBadRequest, EmptyMap, HandlerErr.InvalidBody))
            /\ UNCHANGED writer
       ELSE IF call[p].json[1].Path = EmptyStr
            THEN Written(p, Response(StatusBadRequest, EmptyMap, HandlerErr.PathRequired))
                 /\ UNCHANGED writer
            ELSE IF call[p].json[1].Response = << >>
                 THEN Written(p, Response(StatusBadRequest, EmptyMap, HandlerErr.ResponseRequired))
                      /\ UNCHANGED writer
                 ELSE /\ LockFree
                      /\ writer' = p
                      /\ pc' = [pc EXCEPT ![p] = "locked"]
                      /\ UNCHANGED ret
    /\ UNCHANGED <<endpoints, readers, call, callers, pure>>

\* addResponse under the lock: the response is stored, 200 is written and
\* the deferred Unlock runs
handler_addResponseStore(p) ==
    /\ Running(p, "handler.handleResponses")
    /\ writer = p
    /\ endpoints' = MapPut(endpoints, call[p].json[1].Path, call[p].json[1].Response)
    /\ writer' = NoProc
    /\ Written(p, Response(StatusOK, EmptyMap, EmptyStr))
    /\ UNCHANGED <<readers, call, callers, pure>>


\* GET /stubserver/responses up to h.mu.RLock()
handler_getAllResponses(p) ==
    /\ Handling(p, "handler.handleResponses")
    /\ call[p].request.Method = MethodGET
    /\ RLockFree
    /\ readers' = readers \cup {p}
    /\ pc' = [pc EXCEPT ![p] = "locked"]
    /\ UNCHANGED <<endpoints, writer, call, ret, callers, pure>>

\* getAllResponses under the read lock: the map is marshalled and written,
\* and the deferred RUnlock runs
handler_getAllResponsesWrite(p) ==
    /\ Running(p, "handler.handleResponses")
    /\ p \in readers
    /\ readers' = readers \ {p}
    /\ Written(p, Response(StatusOK, EmptyMap, [k \in DOMAIN endpoints |-> Marshal(endpoints[k])]))
    /\ UNCHANGED <<endpoints, writer, call, callers, pure>>

\* another goroutine is between h.mu.Lock() and its write to the map
MapWriteInProgress(p) ==
    \E q \in Procs \ {p} : writer = q /\ Running(q, "handler.handleResponses")

\* any other path: h.endpoints[r.URL.Path] is read without h.mu.  A read
\* that overlaps a write to the map is a data race: the read goes through,
\* or the runtime stops the process with "fatal error: concurrent map read
\* and map write".
handler_catchAll(p) ==
    /\ Handling(p, "handler.catchAll")
    /\ \E fatal \in (IF MapWriteInProgress(p) THEN BOOLEAN ELSE {FALSE}) :
          IF fatal
          THEN /\ pc' = [q \in Procs |-> "fatal"]
               /\ UNCHANGED ret
          ELSE LET path == call[p].request.Path
               IN IF ~Exists(endpoints, path)
                  THEN Written(p, Response(StatusNotFound, EmptyMap, HandlerErr.NotFound))
                  ELSE Written(p, Response(StatusOK, EmptyMap, Marshal(endpoints[path])))
    /\ UNCHANGED <<endpoints, writer, readers, call, callers, pure>>

NextHandler ==
    \E p \in Procs :
        \/ HandlerRequest(p)
        \/ handler_health(p)
        \/ handler_handleResponses(p)
        \/ handler_deleteAllResponses(p)
        \/ handler_addResponse(p)
        \/ handler_addResponseStore(p)
        \/ handler_getAllResponses(p)
        \/ handler_getAllResponsesWrite(p)
        \/ handler_catchAll(p)
        \/ Respond(p)

\* newHandler, serving one request at a time
SpecHandler == Init /\ [][NextHandler]_vars

\* newHandler, serving requests in parallel
SpecHandlerConc == InitConc /\ [][NextHandler]_vars


\* the steps of goroutine p that write h.endpoints: delete-all, and the
\* store of addResponse
DeleteAllStep(p) ==
    /\ Handling(p, "handler.handleResponses")
    /\ call[p].request.Method = MethodDELETE
    /\ pc'[p] = "done"

StoreStep(p) == Running(p, "handler.handleResponses") /\ writer = p /\ pc'[p] = "done"

\* C31: the catch-all handler answers 200 with the stored response for a
\* path in the map and 404 for any other path; a path is in the map exactly
\* when it was configured since the last delete-all, with the response
\* configured last, and delete-all empties the map.
C31_CatchAllServesConfigured ==
    [][/\ \A p \in Procs :
             HandlerStep(p, "handler.catchAll") =>
                 /\ IF call[p].request.Path \in DOMAIN endpoints
                    THEN /\ ret'[p].status = StatusOK
                         /\ ret'[p].body = Marshal(endpoints[call[p].request.Path])
                    ELSE ret'[p].status = StatusNotFound
                 /\ endpoints' = endpoints
       /\ \A path \in DOMAIN endpoints \cup DOMAIN endpoints' :
             LET stored == {call[p].json[1].Response :
                               p \in {q \in Procs : StoreStep(q) /\ call[q].json[1].Path = path}}
             IN /\ path \in DOMAIN endpoints' <=>
                       \/ stored # {}
                       \/ path \in DOMAIN endpoints /\ ~\E p \in Procs : DeleteAllStep(p)
                /\ path \in DOMAIN endpoints' =>
                       IF stored # {} THEN endpoints'[path] \in stored
                       ELSE endpoints'[path] = endpoints[path]]_vars

\* the catch-all handler has served a configured response
C31_Witness ==
    \E p \in Procs :
        /\ pc[p] = "done" /\ call[p].op = "handler.catchAll"
        /\ call[p].request.Path = Str.PathUpperA
        /\ ret[p].status = StatusOK
        /\ ret[p].body = Marshal(<<Str.BodyS>>)
        /\ Str.PathLowerA \notin DOMAIN endpoints

\* a POST with a path and a response
HandlerAccepts(c) ==
    /\ c.request.Method = MethodPOST
    /\ c.json # << >>
    /\ c.json[1].Path # EmptyStr
    /\ c.json[1].Response # << >>

\* the step in which a request to /stubserver/responses is answered
ResponsesStep(p) ==
    call[p].op = "handler.handleResponses" /\ pc[p] # "done" /\ pc'[p] = "done"

C32_RefusedWitness ==
    \E p \in Procs :
        /\ pc[p] = "done" /\ call[p].op = "handler.handleResponses"
        /\ call[p].request.Method = MethodPOST /\ ~HandlerAccepts(call[p])
        /\ ret[p].status = StatusBadRequest
        /\ DOMAIN endpoints # {}

\* goroutine p is about to read or write h.endpoints
MapAccess(p) ==
    \/ Handling(p, "handler.catchAll")
    \/ Handling(p, "handler.handleResponses") /\ call[p].request.Method = MethodDELETE
    \/ Running(p, "handler.handleResponses")

\* goroutine p is about to write h.endpoints
MapWrite(p) ==
    \/ Handling(p, "handler.handleResponses") /\ call[p].request.Method = MethodDELETE
    \/ Running(p, "handler.handleResponses") /\ writer = p

\* C36: every handler writes h.endpoints holding the write lock and reads
\* it holding the lock, and no write to the map overlaps another access.
C36_MapAccessUnderLock ==
    /\ [](\A p, q \in Procs : (p # q /\ MapWrite(p)) => ~MapAccess(q))
    /\ [][\A p \in Procs :
             /\ (DeleteAllStep(p) \/ StoreStep(p)) => writer = p
             /\ (Handling(p, "handler.catchAll") /\ pc'[p] # "handle") =>
                    (p \in readers \/ writer = p)
             /\ (Running(p, "handler.handleResponses") /\ pc'[p] = "done") =>
                    (p \in readers \/ writer = p)]_vars

====
